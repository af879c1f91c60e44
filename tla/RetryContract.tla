---------------------------- MODULE RetryContract ----------------------------
(***************************************************************************)
(* What the proxy promises the client of a request, whatever the pool does *)
(* meanwhile: the upstream is tried at most MaxRetries times, one at a     *)
(* time; a response that is not worth a retry is passed on at once; and    *)
(* there is one answer, after which nothing is sent.                       *)
(***************************************************************************)
EXTENDS Naturals

CONSTANTS Requests, MaxRetries

Final == {"ok", "soft", "unreadable"}          \* passed on whenever they arrive
Local == {"bad_request", "unconfigured", "no_url", "internal"}
Exhausted == {"cool", "network"}               \* only for want of another attempt
Verdict == Final \cup Local \cup Exhausted

VARIABLES
  sends,    \* attempts made for each request
  verdict   \* its answer, or "none"

Init ==
  /\ sends = [r \in Requests |-> 0]
  /\ verdict = [r \in Requests |-> "none"]

\* One more attempt, and at once the next event of the same request.
Send(r) ==
  /\ verdict[r] = "none"
  /\ sends[r] < MaxRetries
  /\ sends' = [sends EXCEPT ![r] = @ + 1]
  /\ UNCHANGED verdict

Answer(r, v) ==
  /\ verdict[r] = "none"
  /\ v \in Final => sends[r] > 0
  /\ v = "network" => sends[r] = MaxRetries
  /\ v = "cool" => sends[r] > 0
  /\ verdict' = [verdict EXCEPT ![r] = v]
  /\ UNCHANGED sends

Next == \E r \in Requests : Send(r) \/ \E v \in Verdict : Answer(r, v)

Spec == Init /\ [][Next]_<<sends, verdict>>

============================================================================
