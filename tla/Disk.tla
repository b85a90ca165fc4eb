-------------------------------- MODULE Disk --------------------------------
(***************************************************************************)
(* What the mass storage promises the host of one transfer: it moves the   *)
(* bytes of the request in any portions; "ok" means all of them; a byte    *)
(* outside the request is never touched, and one inside holds what it held *)
(* or what was sent.  A refused request moves nothing.  Nothing is         *)
(* promised of a transfer that has read freed memory.                      *)
(***************************************************************************)
CONSTANTS Bytes,        \* the addresses of the medium
          NoAnswer

VARIABLES
    bytes,      \* the medium
    got,        \* the buffer
    request,    \* [asked, write, at: the byte of each place]
    moved,      \* the places whose bytes are moved
    answer,     \* how it ended, or NoAnswer
    undefined   \* freed memory was read

diskVars == <<bytes, got, request, moved, answer, undefined>>

Idle == [asked |-> FALSE, write |-> FALSE, at |-> <<>>]

DiskInit ==
    /\ request = Idle /\ moved = {} /\ answer = NoAnswer /\ undefined = FALSE

Ask ==
    /\ request = Idle /\ request' # Idle /\ moved' = {}
    /\ answer' = NoAnswer /\ ~undefined'
    /\ UNCHANGED bytes

\* A portion is moved, or a write of it fails after some of its bytes.
Move ==
    /\ answer = NoAnswer
    /\ moved \subseteq moved' /\ moved' \subseteq DOMAIN request.at
    /\ IF request.write
       THEN /\ UNCHANGED got
            /\ \A a \in Bytes : bytes'[a] # bytes[a] =>
                 \E i \in DOMAIN request.at \ moved : request.at[i] = a /\ bytes'[a] = got[i]
            /\ \A i \in moved' : bytes'[request.at[i]] = got[i]
       ELSE /\ UNCHANGED bytes
            /\ \A i \in moved' : got'[i] = bytes[request.at[i]]
    /\ UNCHANGED <<request, undefined>>

Fails == answer' # "ok" /\ (answer' = "illegal request" => moved' = {} /\ UNCHANGED bytes)
Answer ==
    /\ answer = NoAnswer /\ request # Idle
    /\ \/ Move /\ Fails
       \/ /\ moved = DOMAIN request.at /\ answer' = "ok"
          /\ UNCHANGED <<bytes, got, request, moved, undefined>>

Forget == answer # NoAnswer /\ request' = Idle /\ answer' = NoAnswer /\ moved' = {}
          /\ ~undefined' /\ UNCHANGED bytes

Undefined == undefined' \/ (undefined /\ request' = Idle)

DiskNext == Undefined \/ Ask \/ (Move /\ answer' = NoAnswer) \/ Answer \/ Forget

DiskSpec == DiskInit /\ [][DiskNext]_diskVars
=============================================================================
