----------------------------- MODULE Lifecycle -----------------------------
(***************************************************************************)
(* What an application may rely on of a client, of all that Session does:  *)
(* one attempt at a time and only while nothing is up, a link that comes   *)
(* of an attempt, retries that are counted and that a closed client does   *)
(* not begin, and a health that says when the link goes.  Of a health that *)
(* still says "connected" while a connect() replaces the link, it promises *)
(* nothing; nor, of a retry that is called off, that anyone is told.       *)
(***************************************************************************)
EXTENDS Naturals

CONSTANTS
  Callers, Loops,  \* who attempts: connect() calls, and the retries of a supervisor
  Conns, None, MaxAttempts

VARIABLES
  link,     \* the connection that is up, or None
  attempt,  \* whose attempt is under way, or None
  tries,    \* retries since a link was last up
  closed,   \* disconnect() was called since
  leaving,  \* a disconnectAsync() is under way
  health

vars == <<link, attempt, tries, closed, leaving, health>>

Init ==
  /\ link = None /\ attempt = None /\ tries = 0
  /\ closed = FALSE /\ leaving = FALSE /\ health = "disconnected"

\* connect() attempts at once, or when the retry that it waits for has stopped; what is up goes.
Connects(c) ==
  /\ attempt = None
  /\ attempt' = c /\ link' = None
  /\ UNCHANGED <<tries, closed, leaving, health>>

\* A retry is announced before its delay, and begins unless the client was closed meanwhile.
BacksOff ==
  /\ link = None /\ attempt = None /\ ~closed /\ tries < MaxAttempts
  /\ health \in {"disconnected", "reconnecting"}
  /\ tries' = tries + 1 /\ health' = "reconnecting"
  /\ UNCHANGED <<link, attempt, closed, leaving>>

Retries(l) ==
  /\ link = None /\ attempt = None /\ ~closed /\ tries > 0 /\ health = "reconnecting"
  /\ attempt' = l
  /\ UNCHANGED <<link, tries, closed, leaving, health>>

GivesUp ==
  /\ link = None /\ attempt = None /\ ~closed /\ tries > 0 /\ health = "reconnecting"
  /\ health' = "disconnected"
  /\ UNCHANGED <<link, attempt, tries, closed, leaving>>

\* Whoever asked to leave has left before a link comes up.
Succeeds ==
  /\ attempt # None /\ ~leaving
  /\ attempt' = None /\ link' \in Conns
  /\ tries' = 0 /\ closed' = FALSE /\ health' = "connected"
  /\ UNCHANGED leaving

Fails ==
  /\ attempt # None
  /\ attempt' = None
  /\ UNCHANGED <<link, tries, closed, leaving, health>>

\* What was up goes, and health says so.
LinkGoes ==
  /\ link # None
  /\ link' = None /\ health' = "disconnected"

Loses == LinkGoes /\ UNCHANGED <<attempt, tries, closed, leaving>>

\* disconnect()
Closes ==
  /\ closed' = TRUE
  /\ LinkGoes \/ UNCHANGED <<link, health>>
  /\ UNCHANGED <<attempt, tries, leaving>>

\* disconnectAsync() says good-bye to what is up, and takes it down if it is still there when the
\* good-bye was answered, timed out or failed.
SaysGoodbye ==
  /\ closed' = TRUE
  /\ leaving' = (leaving \/ link # None)
  /\ UNCHANGED <<link, attempt, tries, health>>

Leaves ==
  /\ leaving /\ leaving' = FALSE
  /\ LinkGoes \/ (link = None /\ UNCHANGED <<link, health>>)
  /\ UNCHANGED <<attempt, tries, closed>>

\* The heartbeat's news is of the link that health speaks of.
Stalls ==
  /\ health = "connected" /\ health' = "stalled"
  /\ UNCHANGED <<link, attempt, tries, closed, leaving>>

Next ==
  \/ \E c \in Callers : Connects(c)
  \/ \E l \in Loops : Retries(l)
  \/ BacksOff \/ GivesUp \/ Succeeds \/ Fails \/ Loses \/ Closes \/ SaysGoodbye \/ Leaves \/ Stalls

Spec == Init /\ [][Next]_vars

-----------------------------------------------------------------------------
\* Nothing is up while an attempt is under way, so that no attempt ever replaces a link, and the
\* retries stay within the budget.
AttemptsFindNothingUp == (attempt # None => link = None) /\ tries <= MaxAttempts

\* A link that goes is reported in the same step, unless a connect() takes its place.
LossIsReported == [][link # None /\ link' = None => attempt' \in Callers \/ health' = "disconnected"]_vars

\* A disconnectAsync() begins with a link, and no other comes up before it is done: what it takes
\* down is what it was called for.
GoodbyesAreForTheirOwn ==
  [][/\ leaving' /\ ~leaving => link # None /\ link' = link
     /\ leaving => link' \in {link, None}]_vars
=============================================================================
