------------------------------- MODULE IdealKem -------------------------------
(***************************************************************************)
(* What hybrid_process_server_response and the server expect of a key      *)
(* encapsulation: the owner of the key gets the secret that was issued     *)
(* with a ciphertext; for any other ciphertext it gets one and the same    *)
(* secret each time, which nobody was issued.                              *)
(***************************************************************************)

VARIABLES
    issued,      \* encapsulations: [key, ct, secret]
    given        \* decapsulations: [key, ct, secret]

vars == <<issued, given>>

SameCall(r, q) == r.key = q.key /\ r.ct = q.ct

\* S is a set of calls that gives no call two secrets.
Consistent(S) == \A r, q \in S : SameCall(r, q) => r.secret = q.secret

Init == issued = {} /\ given = {}

Encapsulate ==
    /\ \E r \in issued' : issued' = issued \cup {r}
    /\ Consistent(issued')
    /\ UNCHANGED given

Decapsulate ==
    /\ \E r \in given' :
           /\ given' = given \cup {r}
           /\ \/ \E q \in issued : SameCall(r, q) /\ r.secret = q.secret
              \/ \A q \in issued : ~ SameCall(r, q) /\ r.secret # q.secret
    /\ Consistent(given')
    /\ UNCHANGED issued

Next == Encapsulate \/ Decapsulate

Spec == Init /\ [][Next]_vars
==============================================================================
