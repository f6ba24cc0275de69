-------------------------- MODULE OneShotResponse --------------------------
(***************************************************************************)
(* What an HTTP exchange through a flow promises: a request is answered    *)
(* at most once, by one of the parties that may answer it, and its handler *)
(* returns only after the answer has been written.  The handler may also   *)
(* fail, in which case the server has answered 500 by itself: then nothing *)
(* keeps a party from answering after that, or in vain before it.          *)
(***************************************************************************)
CONSTANTS Req,     \* the requests
          Party,   \* who may answer: branches of the flow, sweeper, drain, handler
          Nobody

VARIABLES answer,  \* who answered each request
          gone,    \* the requests whose handler has returned
          failed   \* the requests whose handler failed: the server answered 500

Init == answer = [r \in Req |-> Nobody] /\ gone = {} /\ failed = {}

Answer(r, a) ==
    /\ r \notin gone
    /\ answer[r] = Nobody
    /\ answer' = [answer EXCEPT ![r] = a]
    /\ UNCHANGED <<gone, failed>>

Return(r) ==
    /\ r \notin failed
    /\ answer[r] # Nobody
    /\ gone' = gone \cup {r}
    /\ UNCHANGED <<answer, failed>>

Fail(r) ==
    /\ r \notin gone
    /\ failed' = failed \cup {r}
    /\ UNCHANGED <<answer, gone>>

(* A request the handler rejects by itself is answered and returned at once.*)
Reject(r) ==
    /\ r \notin gone \cup failed
    /\ answer[r] = Nobody
    /\ \E a \in Party : answer' = [answer EXCEPT ![r] = a]
    /\ gone' = gone \cup {r}
    /\ UNCHANGED failed

Next == \E r \in Req : \/ \E a \in Party : Answer(r, a)
                       \/ Return(r)
                       \/ Reject(r)
                       \/ Fail(r)

Spec == Init /\ [][Next]_<<answer, gone, failed>>
=============================================================================
