--------------------------- MODULE ChatAssistant ---------------------------
(***************************************************************************)
(* Questions to the assistant in one chat, as policy_query runs them: the  *)
(* lock per subject, the advisory lock per chat, the event stream with its *)
(* query thread, retries under an idempotency key, and beside them the     *)
(* routes that write the row of the chat (handoff, rename, archive).       *)
(*                                                                         *)
(* The API is one process.  policy_query is async: its database calls run  *)
(* on the event loop and, when they wait for a row lock, the loop waits.   *)
(* The other routes run on worker threads.  The transaction of a request   *)
(* is opened by a dependency and ends after the response: the loop hands   *)
(* the exit to a worker thread (Exit), which commits or rolls back         *)
(* (Commit).  Until then its rows are its own and its row lock is held.    *)
(***************************************************************************)
EXTENDS Naturals, Sequences, FiniteSets

CONSTANTS
  Subjects,    \* people
  Tabs,        \* clients, each with one request at a time
  UserOf,      \* the subject a tab is logged in as
  Founder,     \* chat.owner_subject
  Eligible,    \* per subject, the recipients its role may hand the chat to
  Uses,        \* what a tab does: ask, handoff, update (rename or archive)
  KeysOf,      \* the idempotency keys a tab uses
  NoKey,       \* a request without one
  Nobody,
  Ways,        \* ways to ask: in the chat or outside, as a stream or not
  Mishaps,     \* what may go wrong beside the answers: see Mishap
  MaxMessages, \* bound on messages
  MaxHandoffs, \* bound on handoffs
  MaxMishaps   \* bound on mishaps

ASSUME ConstantsAssumption ==
  /\ UserOf \in [Tabs -> Subjects]
  /\ Founder \in Subjects
  /\ Nobody \notin Subjects
  /\ Eligible \in [Subjects -> SUBSET Subjects]
  /\ Uses \in [Tabs -> SUBSET {"ask", "handoff", "update"}]
  /\ Ways \subseteq [inChat : BOOLEAN, streams : BOOLEAN]
  /\ Mishaps \subseteq {"disconnect", "crash", "db_error"}
  /\ MaxMessages \in Nat
  /\ MaxHandoffs \in Nat
  /\ MaxMishaps \in Nat

VARIABLES
  locks,     \* subjects whose lock in _active_query_locks is taken
  messages,  \* chat_message rows
  owner,     \* chat.current_owner_subject
  handoffs,  \* chat_handoff_event rows, oldest first
  orphans,   \* per subject, query threads whose request has gone
  mishaps,   \* what has gone wrong so far
  req        \* the request of each tab

chat == <<messages, owner, handoffs>>
vars == <<locks, messages, owner, handoffs, orphans, mishaps, req>>

Keys == UNION {KeysOf[t] : t \in Tabs}

\* text: what the row shows, the question, a validated answer or the sentence
\* "The assistant could not complete this request."
Message ==
  [role : {"user", "assistant"}, key : Keys \cup {NoKey}, number : Nat \ {0},
   status : {"COMPLETED", "FAILED", "CANCELLED"},
   text : {"question", "answer", "failure"}]

\* open        policy_query has returned the stream, which has not started
\* ..._wait    an append waits for the row of the chat, and the loop with it
\* generating  the query thread runs
\* json        service.ask runs on the event loop
\* ending      the last events are on their way
\* reading     a worker thread has read the chat and is about to lock its row
\* closing     the generator or the route has returned
\* leaving     a worker thread ends the transaction
Waits == {"question_wait", "answer_wait", "failure_wait", "cancel_wait"}
Phases ==
  {"idle", "open", "generating", "json", "ending", "reading", "closing",
   "leaving"} \cup Waits

\* rows: inserted and not committed; settles: the status of the row found
\* under the assistant's key becomes COMPLETED; locked: holds the row of the
\* chat; aborted: a statement failed, the transaction can only roll back.
NoRequest ==
  [phase |-> "idle", op |-> "ask", inChat |-> FALSE, key |-> NoKey, rows |-> {},
   settles |-> FALSE, locked |-> FALSE, aborted |-> FALSE, recipient |-> Nobody]

Init ==
  /\ locks = {}
  /\ messages = {}
  /\ owner = Founder
  /\ handoffs = << >>
  /\ orphans = [s \in Subjects |-> 0]
  /\ mishaps = << >>
  /\ req = [t \in Tabs |-> NoRequest]

-----------------------------------------------------------------------------
(* Who waits for whom.                                                     *)

\* Nothing but the code that blocks it runs on the event loop.
LoopFree == \A t \in Tabs : req[t].phase \notin Waits \cup {"json"}

\* Between the acquisition of the subject's lock and its release.
Running(t) ==
  req[t].op = "ask" /\ req[t].phase \notin {"idle", "closing", "leaving"}

\* The advisory lock is held to the end of the transaction.
Asking(t) == req[t].op = "ask" /\ req[t].phase # "idle"

\* The key of the advisory lock is the chat, or the subject without a chat.
AdvisoryTaken(t, inChat) ==
  \E u \in Tabs : Asking(u) /\ req[u].inChat = inChat
    /\ (inChat \/ UserOf[u] = UserOf[t])

RowFree(t) == \A u \in Tabs \ {t} : ~req[u].locked

\* The SELECT policy of the chat: the founder and everybody it was given to.
Member(s) == s = Founder \/ \E i \in 1..Len(handoffs) : handoffs[i].to = s

-----------------------------------------------------------------------------
(* Messages, as a transaction sees them.                                   *)

Seen(t) == messages \cup req[t].rows

Found(t, role) ==
  {m \in Seen(t) : m.role = role /\ m.key = req[t].key /\ m.key # NoKey}

LastNumber(rows) ==
  CHOOSE n \in {m.number : m \in rows} \cup {0} : \A m \in rows : m.number <= n

NextNumber(t) == LastNumber(Seen(t)) + 1

NewRow(t, role, status, text) ==
  [role |-> role, key |-> req[t].key, number |-> NextNumber(t),
   status |-> status, text |-> text]

\* What append_message stores while a request is in a phase.
RowFor(t, wait) ==
  CASE wait = "question_wait" -> NewRow(t, "user", "COMPLETED", "question")
    [] wait = "answer_wait" -> NewRow(t, "assistant", "COMPLETED", "answer")
    [] wait = "failure_wait" -> NewRow(t, "assistant", "FAILED", "failure")
    [] wait = "cancel_wait" -> NewRow(t, "assistant", "CANCELLED", "failure")

\* Where the request goes on after it.
After(wait) ==
  CASE wait = "question_wait" -> "generating"
    [] wait \in {"answer_wait", "failure_wait"} -> "ending"
    [] wait = "cancel_wait" -> "closing"

Go(t, phase) == req' = [req EXCEPT ![t].phase = phase]

Insert(t, wait) ==
  req' = [req EXCEPT ![t].phase = After(wait), ![t].locked = TRUE,
                     ![t].rows = @ \cup {RowFor(t, wait)}]

\* append_message: a known key returns the row there is; otherwise the row of
\* the chat is locked first, which may have to wait.
Store(t, wait) ==
  LET role == IF wait = "question_wait" THEN "user" ELSE "assistant" IN
  \/ /\ Found(t, role) # {}
     /\ Go(t, After(wait))
  \/ /\ Found(t, role) = {}
     /\ IF RowFree(t) THEN Insert(t, wait) ELSE Go(t, wait)

\* persist_failure: nothing to write to without a chat.
PersistFailure(t, wait) ==
  IF req[t].inChat THEN Store(t, wait) ELSE Go(t, After(wait))
-----------------------------------------------------------------------------
(* policy_query.                                                           *)

\* A retry of an answered question stores nothing.
WithinBounds(key) ==
  \/ Cardinality(messages) + 2 <= MaxMessages
  \/ \E m \in messages : m.role = "assistant" /\ m.key = key /\ key # NoKey
                           /\ m.status = "COMPLETED"

Release(t) == locks' = locks \ {UserOf[t]}

\* Mutant: the result of acquire is not looked at.
MutantAsk(t, key, way) ==
  /\ req[t].phase = "idle" /\ LoopFree
  /\ way.inChat => Member(UserOf[t]) /\ WithinBounds(key)
  /\ ~AdvisoryTaken(t, way.inChat)
  /\ locks' = locks \cup {UserOf[t]}
  /\ req' = [req EXCEPT ![t] =
       [NoRequest EXCEPT !.phase = IF way.streams THEN "open" ELSE "json",
                         !.inChat = way.inChat, !.key = key]]
  /\ UNCHANGED <<chat, orphans, mishaps>>

\* Both locks are taken in one turn of the loop; a request that misses one of
\* them, or the chat, leaves nothing behind.
Ask(t, key, way) ==
  /\ req[t].phase = "idle" /\ LoopFree
  /\ UserOf[t] \notin locks
  /\ way.inChat => Member(UserOf[t]) /\ WithinBounds(key)
  /\ ~AdvisoryTaken(t, way.inChat)
  /\ locks' = locks \cup {UserOf[t]}
  /\ req' = [req EXCEPT ![t] =
       [NoRequest EXCEPT !.phase = IF way.streams THEN "open" ELSE "json",
                         !.inChat = way.inChat, !.key = key]]
  /\ UNCHANGED <<chat, orphans, mishaps>>

\* get_chat or the advisory lock raises: outside the try, nothing releases.
AskRaises(t) ==
  /\ req[t].phase = "idle" /\ LoopFree
  /\ UserOf[t] \notin locks
  /\ "db_error" \in Mishaps /\ Len(mishaps) < MaxMishaps
  /\ locks' = locks \cup {UserOf[t]}
  /\ mishaps' = Append(mishaps, "db_error")
  /\ UNCHANGED <<chat, orphans, req>>

\* service.ask returns or raises; a JSON answer stores no message.
AnswerJson(t) ==
  /\ req[t].phase = "json"
  /\ Go(t, "closing")
  /\ Release(t)
  /\ UNCHANGED <<chat, orphans, mishaps>>

-----------------------------------------------------------------------------
(* The event stream.                                                       *)

\* An assistant row under this key is COMPLETED.
Answered(t) == \E m \in Found(t, "assistant") : m.status = "COMPLETED"

\* An attachment of the request is not ready: no question is stored.
RefuseAttachment(t) ==
  /\ req[t].phase = "open" /\ LoopFree
  /\ PersistFailure(t, "failure_wait")
  /\ UNCHANGED <<locks, chat, orphans, mishaps>>

Replay(t) ==
  /\ req[t].phase = "open" /\ LoopFree
  /\ req[t].inChat /\ Answered(t)
  /\ Go(t, "ending")
  /\ UNCHANGED <<locks, chat, orphans, mishaps>>

\* The question is stored and the query thread starts.
StoreQuestion(t) ==
  /\ req[t].phase = "open" /\ LoopFree
  /\ ~(req[t].inChat /\ Answered(t))
  /\ IF req[t].inChat THEN Store(t, "question_wait") ELSE Go(t, "generating")
  /\ UNCHANGED <<locks, chat, orphans, mishaps>>

\* Mutant: a row found under the key takes the answer.
MutantStoreAnswer(t) ==
  /\ req[t].phase = "generating" /\ LoopFree
  /\ IF req[t].inChat /\ Found(t, "assistant") # {}
     THEN req' = [req EXCEPT ![t].phase = "ending", ![t].rows = @ \cup
            {[m EXCEPT !.text = "answer", !.status = "COMPLETED"] :
               m \in Found(t, "assistant")}]
     ELSE PersistFailure(t, "answer_wait")
  /\ UNCHANGED <<locks, chat, orphans, mishaps>>

\* The thread has answered; the row found under the key is marked COMPLETED,
\* whatever it says.
StoreAnswer(t) ==
  /\ req[t].phase = "generating" /\ LoopFree
  /\ IF req[t].inChat /\ Found(t, "assistant") # {}
     THEN req' = [req EXCEPT ![t].phase = "ending", ![t].settles = TRUE]
     ELSE PersistFailure(t, "answer_wait")
  /\ UNCHANGED <<locks, chat, orphans, mishaps>>

\* The thread has raised.
FailGeneration(t) ==
  /\ req[t].phase = "generating" /\ LoopFree
  /\ PersistFailure(t, "failure_wait")
  /\ UNCHANGED <<locks, chat, orphans, mishaps>>

\* The generator has yielded its last event.
EndStream(t) ==
  /\ req[t].phase = "ending" /\ LoopFree
  /\ Go(t, "closing")
  /\ Release(t)
  /\ UNCHANGED <<chat, orphans, mishaps>>

Blocked(t) == req[t].phase \in Waits

\* The row is free: the append goes on, and so does the loop.
Granted(t) ==
  /\ Blocked(t) /\ RowFree(t)
  /\ Insert(t, req[t].phase)
  /\ IF req[t].phase = "cancel_wait" THEN Release(t) ELSE UNCHANGED locks
  /\ UNCHANGED <<chat, orphans, mishaps>>

\* Mutant: statements have no time limit.
MutantTimedOut(t) == FALSE /\ UNCHANGED vars

\* statement_timeout: an error event follows, and persist_failure, which can
\* do nothing in an aborted transaction.
TimedOut(t) ==
  /\ Blocked(t) /\ ~RowFree(t)
  /\ req' = [req EXCEPT ![t].aborted = TRUE, ![t].rows = {},
       ![t].phase = IF @ = "cancel_wait" THEN "closing" ELSE "ending"]
  /\ IF req[t].phase = "cancel_wait" THEN Release(t) ELSE UNCHANGED locks
  /\ UNCHANGED <<chat, orphans, mishaps>>

-----------------------------------------------------------------------------
(* The client goes away.  The query thread cannot be stopped.              *)

GoesOn(t) ==
  orphans' = [orphans EXCEPT ![UserOf[t]] =
                @ + (IF req[t].phase = "generating" THEN 1 ELSE 0)]

\* While the generator waits for the thread: CancelledError.
Disconnect(t) ==
  /\ req[t].phase = "generating" /\ LoopFree
  /\ "disconnect" \in Mishaps /\ Len(mishaps) < MaxMishaps
  /\ GoesOn(t)
  /\ PersistFailure(t, "cancel_wait")
  /\ IF req'[t].phase = "closing" THEN Release(t) ELSE UNCHANGED locks
  /\ mishaps' = Append(mishaps, "disconnect")
  /\ UNCHANGED chat

\* While an event is being sent: the generator is closed at its yield, no
\* failure is stored, and what was stored is committed.
Abandon(t) ==
  /\ req[t].phase \in {"generating", "ending"} /\ LoopFree
  /\ "disconnect" \in Mishaps /\ Len(mishaps) < MaxMishaps
  /\ GoesOn(t)
  /\ Go(t, "closing")
  /\ Release(t)
  /\ mishaps' = Append(mishaps, "disconnect")
  /\ UNCHANGED chat

OrphanEnds(s) ==
  /\ orphans[s] > 0
  /\ orphans' = [orphans EXCEPT ![s] = @ - 1]
  /\ UNCHANGED <<locks, chat, mishaps, req>>

-----------------------------------------------------------------------------
(* Routes that write the row of the chat, on worker threads.               *)

ReadForHandoff(t, s) ==
  /\ req[t].phase = "idle" /\ LoopFree
  /\ owner = UserOf[t]
  /\ s \in Eligible[UserOf[t]] \ {UserOf[t]}
  /\ Len(handoffs) < MaxHandoffs
  /\ req' = [req EXCEPT ![t] =
       [NoRequest EXCEPT !.phase = "reading", !.op = "handoff", !.recipient = s]]
  /\ UNCHANGED <<locks, chat, orphans, mishaps>>

\* Rename and archive.
ReadForUpdate(t) ==
  /\ req[t].phase = "idle" /\ LoopFree
  /\ Member(UserOf[t])
  /\ req' = [req EXCEPT ![t] =
       [NoRequest EXCEPT !.phase = "reading", !.op = "update"]]
  /\ UNCHANGED <<locks, chat, orphans, mishaps>>

\* Mutant: the row is locked and its owner not compared again.
MutantLockRow(t) ==
  /\ req[t].phase = "reading" /\ RowFree(t)
  /\ req' = [req EXCEPT ![t].phase = "closing", ![t].locked = TRUE]
  /\ UNCHANGED <<locks, chat, orphans, mishaps>>

\* SELECT ... FOR UPDATE of a handoff compares the owner again; the UPDATE of
\* the other routes does not look at it.
LockRow(t) ==
  /\ req[t].phase = "reading" /\ RowFree(t)
  /\ req' = [req EXCEPT ![t].phase = "closing", ![t].locked = TRUE,
       ![t].aborted = req[t].op = "handoff" /\ owner # UserOf[t]]
  /\ UNCHANGED <<locks, chat, orphans, mishaps>>

RouteTimedOut(t) ==
  /\ req[t].phase = "reading" /\ ~RowFree(t)
  /\ req' = [req EXCEPT ![t].phase = "closing", ![t].aborted = TRUE]
  /\ UNCHANGED <<locks, chat, orphans, mishaps>>

-----------------------------------------------------------------------------
(* The end of a transaction.                                               *)

Exit(t) ==
  /\ req[t].phase = "closing" /\ LoopFree
  /\ Go(t, "leaving")
  /\ UNCHANGED <<locks, chat, orphans, mishaps>>

Settled(t) ==
  {IF req[t].settles /\ m \in Found(t, "assistant")
   THEN [m EXCEPT !.status = "COMPLETED"] ELSE m : m \in messages}

Commit(t) ==
  /\ req[t].phase = "leaving" /\ ~req[t].aborted
  /\ messages' = Settled(t) \cup req[t].rows
  /\ IF req[t].op = "handoff"
     THEN /\ owner' = req[t].recipient
          /\ handoffs' = Append(handoffs,
               [from |-> UserOf[t], to |-> req[t].recipient])
     ELSE UNCHANGED <<owner, handoffs>>
  /\ req' = [req EXCEPT ![t] = NoRequest]
  /\ UNCHANGED <<locks, orphans, mishaps>>

Rollback(t) ==
  /\ req[t].phase = "leaving" /\ req[t].aborted
  /\ req' = [req EXCEPT ![t] = NoRequest]
  /\ UNCHANGED <<locks, chat, orphans, mishaps>>

\* The process restarts: its locks, threads and transactions are gone.
Crash ==
  /\ "crash" \in Mishaps /\ Len(mishaps) < MaxMishaps
  /\ locks' = {}
  /\ orphans' = [s \in Subjects |-> 0]
  /\ req' = [t \in Tabs |-> NoRequest]
  /\ mishaps' = Append(mishaps, "crash")
  /\ UNCHANGED chat

-----------------------------------------------------------------------------
Start(t) ==
  \/ /\ "ask" \in Uses[t]
     /\ \E k \in KeysOf[t], w \in Ways : Ask(t, k, w)
  \/ /\ "handoff" \in Uses[t]
     /\ \E s \in Subjects : ReadForHandoff(t, s)
  \/ /\ "update" \in Uses[t]
     /\ ReadForUpdate(t)

Continue(t) ==
  \/ AnswerJson(t) \/ RefuseAttachment(t) \/ Replay(t) \/ StoreQuestion(t)
  \/ StoreAnswer(t) \/ FailGeneration(t) \/ EndStream(t)
  \/ Granted(t) \/ TimedOut(t)
  \/ LockRow(t) \/ RouteTimedOut(t)
  \/ Exit(t) \/ Commit(t) \/ Rollback(t)

Mishap(t) == AskRaises(t) \/ Disconnect(t) \/ Abandon(t)

Next ==
  \/ \E t \in Tabs : Start(t) \/ Continue(t) \/ Mishap(t)
  \/ \E s \in Subjects : OrphanEnds(s)
  \/ Crash

Spec == Init /\ [][Next]_vars

\* The loop takes its ready callbacks in turn, the model server is called
\* with a timeout, statements have one, and worker threads run.
FairSpec == Spec /\ \A t \in Tabs : SF_vars(Continue(t))

-----------------------------------------------------------------------------
(* Properties.                                                             *)

Request ==
  [phase : Phases, op : {"ask", "handoff", "update"}, inChat : BOOLEAN,
   key : Keys \cup {NoKey}, rows : SUBSET Message, settles : BOOLEAN,
   locked : BOOLEAN, aborted : BOOLEAN, recipient : Subjects \cup {Nobody}]

\* Every variable keeps its type.
TypeOK ==
  /\ locks \subseteq Subjects
  /\ messages \subseteq Message
  /\ owner \in Subjects
  /\ handoffs \in Seq([from : Subjects, to : Subjects])
  /\ orphans \in [Subjects -> Nat]
  /\ mishaps \in Seq(Mishaps)
  /\ req \in [Tabs -> Request]

\* Two generations of a subject never run at once, unless the client of one
\* went away; in one chat one question at a time is asked.
GenerationsApart ==
  \A t, u \in Tabs :
    \/ Running(t) /\ Running(u) /\ UserOf[t] = UserOf[u]
    \/ Asking(t) /\ Asking(u) /\ req[t].inChat /\ req[u].inChat
    => t = u

\* "A request lock prevents two overlapping generations": with the threads that
\* go on after their client went away, it does not.
Generating(t) == req[t].phase \in {"generating", "json"}

OneGeneration ==
  \A s \in Subjects :
    Cardinality({t \in Tabs : UserOf[t] = s /\ Generating(t)}) + orphans[s] <= 1

\* Rows numbered 1, 2, ... without a gap or a repetition.
Numbered(rows) ==
  /\ LastNumber(rows) \in Nat
  /\ {m.number : m \in rows} = 1..LastNumber(rows)
  /\ \A m, n \in rows : m.number = n.number => m = n

\* Rows in which each answer comes after its question.
Ordered(rows) ==
  \A a \in rows : a.text = "answer" =>
    \E q \in rows :
      /\ q.text = "question" /\ q.key = a.key /\ q.number < a.number
      /\ a.key = NoKey => q.number = a.number - 1

\* The numbers of a chat are 1, 2, ... whatever was rolled back.
MessagesDense == Numbered(messages)

\* An answer comes after its question: directly after it, or, when a request
\* was retried under its key, later in the chat.
AnswerFollowsQuestion == Ordered(messages)

\* Both, through retries, disconnects, timeouts, restarts and rollbacks.
AnswersInOrder == MessagesDense /\ AnswerFollowsQuestion

\* The chat passes from hand to hand: each handoff is made by the one who had
\* received the chat, although the route reads the owner without a lock.
OwnerChain ==
  /\ \A i \in 1..Len(handoffs) :
       handoffs[i].from = IF i = 1 THEN Founder ELSE handoffs[i - 1].to
  /\ owner = IF handoffs = << >> THEN Founder ELSE handoffs[Len(handoffs)].to

\* A request that runs has the lock of its subject, and when a request is
\* refused because "another assistant request is already running", one is,
\* unless a look-up raised.
LocksHeldByRequests ==
  LET holders == {UserOf[t] : t \in {u \in Tabs : Running(u)}} IN
  /\ holders \subseteq locks
  /\ (\A i \in 1..Len(mishaps) : mishaps[i] # "db_error") => locks \subseteq holders

\* What was stored as a completed answer is an answer, and so is what a retry
\* under its key is given.
CompletedIsAnswer ==
  \A m \in messages :
    m.role = "assistant" /\ m.status = "COMPLETED" => m.text = "answer"

\* Every request ends, whatever row it waits for, and so does the wait of the
\* event loop.
EveryRequestEnds ==
  \A t \in Tabs : req[t].phase # "idle" ~> req[t].phase = "idle"

-----------------------------------------------------------------------------
(* The inductive invariant.                                                *)

\* What a request carries in each of its phases.
WellFormed(r) ==
  /\ r.phase = "idle" => r = NoRequest
  /\ r.op # "ask" =>
       /\ r.phase \in {"reading", "closing", "leaving"}
       /\ r.rows = {} /\ ~r.settles
  /\ r.op = "ask" => r.phase # "reading"
  /\ r.op = "handoff" =>
       /\ r.recipient \in Subjects
       /\ r.phase = "reading" \/ r.aborted \/ r.locked
  /\ r.rows # {} => r.locked /\ r.inChat
  /\ r.settles => r.inChat
  /\ r.phase \in Waits => r.inChat
  /\ r.phase \in {"open", "generating"} \cup Waits => ~r.settles
  /\ r.phase \in {"open", "generating"} \cup Waits \/ r.settles =>
       \A m \in r.rows : m.role = "user"

RequestsWellFormed == \A t \in Tabs : WellFormed(req[t])

\* The row of the chat is locked once.
RowLockedOnce == \A t, u \in Tabs : req[t].locked /\ req[u].locked => t = u

\* A handoff that has compared the owner still hands over what it owns.
OwnerHeld ==
  \A t \in Tabs :
    /\ req[t].op = "handoff" /\ req[t].phase # "reading" /\ ~req[t].aborted
    => owner = UserOf[t]

\* Questions are the rows of users, in every transaction.
RolesOfRows ==
  \A t \in Tabs : \A m \in Seen(t) : m.text = "question" <=> m.role = "user"

\* Each transaction sees a chat that is numbered and in order.
SeenInOrder == \A t \in Tabs : Numbered(Seen(t)) /\ Ordered(Seen(t))

\* A request that generates has stored its question or found it.
Asked(t) ==
  \E q \in Seen(t) :
    /\ q.text = "question" /\ q.key = req[t].key
    /\ req[t].key = NoKey => q.number = LastNumber(Seen(t))

GeneratingAsked ==
  \A t \in Tabs :
    req[t].phase \in {"generating", "answer_wait"} /\ req[t].inChat => Asked(t)

Inductive ==
  /\ TypeOK /\ RequestsWellFormed /\ RowLockedOnce /\ LocksHeldByRequests
  /\ OwnerHeld /\ OwnerChain /\ GenerationsApart
  /\ MessagesDense /\ AnswerFollowsQuestion
  /\ RolesOfRows /\ SeenInOrder /\ GeneratingAsked
=============================================================================
