---------------------------- MODULE RequestPlans ----------------------------
(***************************************************************************)
(* Requests served by asynchronous handlers.                               *)
(*                                                                         *)
(* A handler is a list of statements with an await between them.  A        *)
(* request carries the list of the statements it has still to run, its     *)
(* plan, what it was asked and what it has read so far; a statement of     *)
(* another request may run at each await.  The components that EXTEND this *)
(* module say which handlers there are and what their statements do.       *)
(***************************************************************************)
EXTENDS Integers, Sequences

CONSTANTS
  Requests,    \* the requests served at the same time
  Handlers,    \* what they may ask
  Faulty,      \* a statement may fail; bound: one in all
  MaxServed    \* bound: requests served in all

ASSUME RequestAssumption == Faulty \in BOOLEAN /\ MaxServed \in Nat

VARIABLES
  plan,        \* the statements each request has still to run
  req,         \* what it was asked
  mem,         \* what it has read
  served,      \* requests served so far
  overlapped,  \* two requests have been served at the same time
  failed       \* a statement has failed

requestVars == <<plan, req, mem, served, overlapped, failed>>

NoRequest == [op |-> "none"]

InitRequests ==
  /\ plan = [c \in Requests |-> <<>>]
  /\ req = [c \in Requests |-> NoRequest]
  /\ mem = [c \in Requests |-> <<>>]
  /\ served = 0 /\ overlapped = FALSE /\ failed = FALSE

Idle(c) == plan[c] = <<>>
Quiet == \A c \in Requests : Idle(c)

\* What a reader of the handlers expects: one request after the other, and no
\* statement that fails.
Clean == ~overlapped /\ ~failed

\* The handler is called: it is asked r and has m in memory before its
\* statements p.
Begin(c, r, m, p) ==
  /\ Idle(c)
  /\ overlapped' = (overlapped \/ ~Quiet)
  /\ plan' = [plan EXCEPT ![c] = p]
  /\ req' = [req EXCEPT ![c] = r]
  /\ mem' = [mem EXCEPT ![c] = m]
  /\ UNCHANGED failed

\* A request arrives.
Arrive(c, r, m, p) ==
  /\ r.op \in Handlers /\ served < MaxServed
  /\ served' = served + 1
  /\ Begin(c, r, m, p)

\* A request of a single statement.
Instant(op) ==
  /\ op \in Handlers /\ served < MaxServed
  /\ served' = served + 1
  /\ overlapped' = (overlapped \/ ~Quiet)
  /\ UNCHANGED <<plan, req, mem, failed>>

\* The next statement of c is s.
At(c, s) == plan[c] # <<>> /\ Head(plan[c]) = s

\* The request goes on with the statements p and has m in memory.
Continue(c, p, m) ==
  /\ plan' = [plan EXCEPT ![c] = p]
  /\ req' = IF p = <<>> THEN [req EXCEPT ![c] = NoRequest] ELSE req
  /\ mem' = [mem EXCEPT ![c] = IF p = <<>> THEN <<>> ELSE m]
  /\ UNCHANGED <<served, overlapped>>

\* The statement is done.
Rest(p) == Tail(p)

Proceed(c, m) == Continue(c, Rest(plan[c]), m) /\ UNCHANGED failed
Done(c) == Proceed(c, mem[c])

\* The request ends here, with an answer or an error.
End(c) == Continue(c, <<>>, <<>>) /\ UNCHANGED failed

\* A statement fails, or the process stops: what was done before it stays.
Break(c) ==
  /\ Faulty /\ ~failed /\ ~Idle(c)
  /\ Continue(c, <<>>, <<>>)
  /\ failed' = TRUE

\* The statement s fails, is logged, and the request goes on.
Shrug(c, s) ==
  /\ Faulty /\ ~failed /\ At(c, s)
  /\ Continue(c, Tail(plan[c]), mem[c])
  /\ failed' = TRUE

RequestsOK ==
  /\ DOMAIN plan = Requests /\ DOMAIN req = Requests /\ DOMAIN mem = Requests
  /\ served \in 0..MaxServed
  /\ overlapped \in BOOLEAN /\ failed \in BOOLEAN
=============================================================================
