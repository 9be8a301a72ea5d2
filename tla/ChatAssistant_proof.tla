------------------------- MODULE ChatAssistant_proof -------------------------
(***************************************************************************)
(* Proofs about ChatAssistant, for any people, clients, keys and bounds.   *)
(* Every action but Commit and Crash gives one client another request and  *)
(* leaves the chat alone; what such a step must respect is Legal, and      *)
(* LegalStep shows once that it is enough.                                 *)
(***************************************************************************)
EXTENDS ChatAssistant, TLAPS

-----------------------------------------------------------------------------
(* Rows.                                                                   *)

\* _next_sequence finds the largest number.
LEMMA LastOf ==
  ASSUME NEW rows, NEW k \in Nat, {m.number : m \in rows} = 1..k
  PROVE  LastNumber(rows) = k
<1> DEFINE S == {m.number : m \in rows} \cup {0}
           P(n) == \A m \in rows : m.number <= n
<1>1. k \in S
  <2>1. k = 0 \/ k \in 1..k
    OBVIOUS
  <2> QED BY <2>1
<1>2. P(k)
  <2>1. \A m \in rows : m.number \in 1..k
    OBVIOUS
  <2> QED BY <2>1
<1>3. LastNumber(rows) = CHOOSE n \in S : P(n)
  BY DEF LastNumber
<1>4. ASSUME NEW n \in S, P(n) PROVE n = k
  <2>1. n \in 0..k
    OBVIOUS
  <2>2. k # 0 => \E m \in rows : m.number = k
    <3>1. k # 0 => k \in {m.number : m \in rows}
      OBVIOUS
    <3> QED BY <3>1
  <2>3. k # 0 => k <= n
    BY <2>2, <1>4
  <2> QED BY <2>1, <2>3
<1> QED BY <1>1, <1>2, <1>3, <1>4

\* A new chat has no messages.
LEMMA EmptyRows ==
  ASSUME NEW rows, rows = {}
  PROVE  Numbered(rows) /\ Ordered(rows)
<1>1. {m.number : m \in rows} = 1..0
  OBVIOUS
<1>2. LastNumber(rows) = 0
  BY <1>1, LastOf
<1> QED BY <1>1, <1>2 DEF Numbered, Ordered

\* A row with the next number.
LEMMA NumberedNext ==
  ASSUME NEW rows, Numbered(rows), NEW row, row.number = LastNumber(rows) + 1
  PROVE  /\ Numbered(rows \cup {row})
         /\ LastNumber(rows \cup {row}) = LastNumber(rows) + 1
<1> DEFINE k == LastNumber(rows)
           all == rows \cup {row}
<1>1. k \in Nat /\ {m.number : m \in rows} = 1..k
  BY DEF Numbered
<1>2. {m.number : m \in all} = 1..(k + 1)
  <2>1. {m.number : m \in all} = {m.number : m \in rows} \cup {k + 1}
    OBVIOUS
  <2>2. 1..(k + 1) = 1..k \cup {k + 1}
    BY <1>1
  <2> QED BY <2>1, <2>2, <1>1
<1>3. LastNumber(all) = k + 1
  <2>1. k + 1 \in Nat
    BY <1>1
  <2> HIDE DEF k, all
  <2> QED BY <2>1, <1>2, LastOf
<1>4. \A m \in rows : m.number \in 1..k
  BY <1>1
<1>5. \A m, n \in all : m.number = n.number => m = n
  <2>1. \A m \in rows : m.number # row.number
    BY <1>1, <1>4
  <2>2. \A m, n \in rows : m.number = n.number => m = n
    BY DEF Numbered
  <2> QED BY <2>1, <2>2
<1>6. k + 1 \in Nat
  BY <1>1
<1>7. Numbered(all)
  <2> HIDE DEF k, all
  <2> QED BY <1>2, <1>3, <1>5, <1>6 DEF Numbered
<1> QED BY <1>3, <1>7

\* An answer comes after its question when the transaction sees the question.
LEMMA OrderedNext ==
  ASSUME NEW rows, Numbered(rows), Ordered(rows),
         NEW row, row.number = LastNumber(rows) + 1,
         row.text = "answer" =>
           \E q \in rows : /\ q.text = "question" /\ q.key = row.key
                           /\ row.key = NoKey => q.number = LastNumber(rows)
  PROVE  Ordered(rows \cup {row})
<1>1. LastNumber(rows) \in Nat /\ \A m \in rows : m.number \in 1..LastNumber(rows)
  BY DEF Numbered
<1>2. ASSUME NEW a \in rows \cup {row}, a.text = "answer"
      PROVE  \E q \in rows \cup {row} :
               /\ q.text = "question" /\ q.key = a.key /\ q.number < a.number
               /\ a.key = NoKey => q.number = a.number - 1
  <2>1. CASE a \in rows
    BY <2>1, <1>2 DEF Ordered
  <2>2. CASE a = row
    <3>1. PICK q \in rows : /\ q.text = "question" /\ q.key = row.key
                            /\ row.key = NoKey => q.number = LastNumber(rows)
      BY <2>2, <1>2
    <3>2. q.number < row.number
      BY <1>1
    <3>3. row.key = NoKey => q.number = row.number - 1
      BY <1>1, <3>1
    <3> QED BY <2>2, <3>1, <3>2, <3>3
  <2> QED BY <2>1, <2>2
<1> QED BY <1>2 DEF Ordered

Alike(m, n) == m.number = n.number /\ m.key = n.key /\ m.text = n.text

\* Rows whose status alone has changed.
LEMMA SameNumbers ==
  ASSUME NEW rows, NEW marked, Numbered(rows), Ordered(rows),
         \A m \in rows : \E n \in marked : Alike(m, n),
         \A n \in marked : \E m \in rows : Alike(m, n),
         \A m, n \in marked : m.number = n.number => m = n
  PROVE  Numbered(marked) /\ Ordered(marked)
<1>1. {m.number : m \in marked} = {m.number : m \in rows}
  BY DEF Alike
<1>2. LastNumber(marked) = LastNumber(rows)
  BY <1>1, LastOf DEF Numbered
<1>3. Numbered(marked)
  BY <1>1, <1>2 DEF Numbered
<1>4. ASSUME NEW a \in marked, a.text = "answer"
      PROVE  \E q \in marked :
               /\ q.text = "question" /\ q.key = a.key /\ q.number < a.number
               /\ a.key = NoKey => q.number = a.number - 1
  <2>1. PICK b \in rows : Alike(b, a)
    OBVIOUS
  <2>2. PICK p \in rows :
          /\ p.text = "question" /\ p.key = b.key /\ p.number < b.number
          /\ b.key = NoKey => p.number = b.number - 1
    BY <2>1, <1>4 DEF Ordered, Alike
  <2>3. PICK q \in marked : Alike(p, q)
    OBVIOUS
  <2> QED BY <2>1, <2>2, <2>3 DEF Alike
<1> QED BY <1>3, <1>4 DEF Ordered

-----------------------------------------------------------------------------
(* A step of one request.                                                  *)

Becomes(t, r) == req' = [req EXCEPT ![t] = r] /\ UNCHANGED chat

Runs(r) == r.op = "ask" /\ r.phase \notin {"idle", "closing", "leaving"}
Asks(r) == r.op = "ask" /\ r.phase # "idle"
Generates(r) == r.phase \in {"generating", "answer_wait"} /\ r.inChat

\* What a transaction may do to its rows: drop, keep or add one.
RowsLegal(t, r) ==
  \/ r.rows = {} /\ ~Generates(r)
  \/ /\ r.rows = req[t].rows
     /\ Generates(r) =>
          \E q \in Seen(t) : /\ q.text = "question" /\ q.key = r.key
                             /\ r.key = NoKey => q.number = LastNumber(Seen(t))
  \/ \E row \in Message :
       /\ r.rows = req[t].rows \cup {row}
       /\ row.number = LastNumber(Seen(t)) + 1
       /\ row.text = "question" <=> row.role = "user"
       /\ row.text = "answer" =>
            \E q \in Seen(t) : /\ q.text = "question" /\ q.key = row.key
                               /\ row.key = NoKey => q.number = LastNumber(Seen(t))
       /\ Generates(r) => row.text = "question" /\ row.key = r.key

Legal(t, r) ==
  /\ r \in Request /\ WellFormed(r)
  /\ r.locked => req[t].locked \/ RowFree(t)
  /\ Runs(r) => Running(t) \/ UserOf[t] \notin locks
  /\ Asks(r) /\ r.inChat =>
       (Asking(t) /\ req[t].inChat) \/ ~AdvisoryTaken(t, TRUE)
  /\ r.op = "handoff" /\ r.phase # "reading" /\ ~r.aborted => owner = UserOf[t]
  /\ RowsLegal(t, r)

\* The parts of Inductive that speak of the chat and its requests.
Core ==
  /\ req \in [Tabs -> Request]
  /\ RequestsWellFormed /\ RowLockedOnce /\ OwnerHeld /\ OwnerChain
  /\ GenerationsApart /\ MessagesDense /\ AnswerFollowsQuestion
  /\ RolesOfRows /\ SeenInOrder /\ GeneratingAsked

\* Two requests cannot both run for one subject, nor ask in the chat.
LEMMA StepApart ==
  ASSUME Inductive, NEW t \in Tabs, NEW r, req' = [req EXCEPT ![t] = r], Legal(t, r)
  PROVE  GenerationsApart' /\ RowLockedOnce'
<1>1. req' = [req EXCEPT ![t] = r] /\ req \in [Tabs -> Request]
  BY DEF Inductive, TypeOK
<1>2. \A u \in Tabs : Running(u)' = Runs(req'[u]) /\ Running(u) = Runs(req[u])
  BY Zenon DEF Running, Runs
<1>3. \A u \in Tabs : Asking(u)' = Asks(req'[u]) /\ Asking(u) = Asks(req[u])
  BY Zenon DEF Asking, Asks
<1>4. \A u \in Tabs : Running(u) => UserOf[u] \in locks
  BY DEF Inductive, LocksHeldByRequests
<1>5. ASSUME NEW u \in Tabs, u # t
      PROVE  /\ ~(Running(t)' /\ Running(u)' /\ UserOf[t] = UserOf[u])
             /\ ~(Asking(t)' /\ Asking(u)' /\ req'[t].inChat /\ req'[u].inChat)
             /\ ~(req'[t].locked /\ req'[u].locked)
  <2>1. req'[t] = r /\ req'[u] = req[u]
    BY <1>1, <1>5
  <2>2. Running(t)' /\ Running(u)' => UserOf[t] # UserOf[u]
    BY <2>1, <1>2, <1>4, <1>5 DEF Legal, Inductive, GenerationsApart
  <2>3. ~(Asking(t)' /\ Asking(u)' /\ req'[t].inChat /\ req'[u].inChat)
    BY <2>1, <1>3, <1>5 DEF Legal, Inductive, GenerationsApart, AdvisoryTaken
  <2>4. ~(req'[t].locked /\ req'[u].locked)
    BY <2>1, <1>5 DEF Legal, Inductive, RowLockedOnce, RowFree
  <2> QED BY <2>2, <2>3, <2>4
<1>6. \A u, v \in Tabs : u # t /\ v # t =>
        /\ req'[u] = req[u] /\ req'[v] = req[v]
  BY <1>1
<1>7. RowLockedOnce'
  BY <1>5, <1>6 DEF RowLockedOnce, Inductive
<1>8. GenerationsApart'
  <2> SUFFICES ASSUME NEW u \in Tabs, NEW v \in Tabs, u # v,
                      \/ Running(u)' /\ Running(v)' /\ UserOf[u] = UserOf[v]
                      \/ Asking(u)' /\ Asking(v)' /\ req'[u].inChat /\ req'[v].inChat
               PROVE  FALSE
    BY Zenon DEF GenerationsApart
  <2>1. CASE u = t \/ v = t
    BY <2>1, <1>5
  <2>2. CASE u # t /\ v # t
    BY <2>2, <1>2, <1>3, <1>6 DEF GenerationsApart, Inductive
  <2> QED BY <2>1, <2>2
<1> QED BY <1>7, <1>8

\* The rows a transaction sees after its step.
LEMMA StepRows ==
  ASSUME Inductive, NEW t \in Tabs, NEW r, Becomes(t, r), Legal(t, r)
  PROVE  /\ Numbered(Seen(t)') /\ Ordered(Seen(t)')
         /\ \A m \in Seen(t)' : m.text = "question" <=> m.role = "user"
         /\ Generates(r) => Asked(t)'
<1>1. /\ req' = [req EXCEPT ![t] = r] /\ req \in [Tabs -> Request]
      /\ messages' = messages
  BY DEF Becomes, Inductive, TypeOK, chat
<1>2. req'[t] = r /\ Seen(t)' = messages \cup r.rows
  BY <1>1 DEF Seen
<1>3. Numbered(Seen(t)) /\ Ordered(Seen(t))
  BY DEF Inductive, SeenInOrder
<1>4. \A m \in Seen(t) : m.text = "question" <=> m.role = "user"
  BY DEF Inductive, RolesOfRows
<1>5. CASE r.rows = {} /\ ~Generates(r)
  <2>1. Seen(t)' = messages /\ messages \subseteq Seen(t)
    BY <1>2, <1>5 DEF Seen
  <2> QED BY <2>1, <1>4, <1>5 DEF Inductive, MessagesDense, AnswerFollowsQuestion
<1>6. CASE /\ r.rows = req[t].rows
           /\ Generates(r) =>
                \E q \in Seen(t) : /\ q.text = "question" /\ q.key = r.key
                                   /\ r.key = NoKey => q.number = LastNumber(Seen(t))
  <2>1. Seen(t)' = Seen(t)
    BY <1>2, <1>6 DEF Seen
  <2>2. Generates(r) => Asked(t)'
    BY <2>1, <1>2, <1>6 DEF Asked
  <2> QED BY <2>1, <2>2, <1>3, <1>4
<1>7. ASSUME NEW row \in Message,
             /\ r.rows = req[t].rows \cup {row}
             /\ row.number = LastNumber(Seen(t)) + 1
             /\ row.text = "question" <=> row.role = "user"
             /\ row.text = "answer" =>
                  \E q \in Seen(t) : /\ q.text = "question" /\ q.key = row.key
                                     /\ row.key = NoKey => q.number = LastNumber(Seen(t))
             /\ Generates(r) => row.text = "question" /\ row.key = r.key
      PROVE  /\ Numbered(Seen(t)') /\ Ordered(Seen(t)')
             /\ \A m \in Seen(t)' : m.text = "question" <=> m.role = "user"
             /\ Generates(r) => Asked(t)'
  <2>1. Seen(t)' = Seen(t) \cup {row}
    BY <1>2, <1>7 DEF Seen
  <2>2. /\ Numbered(Seen(t) \cup {row})
        /\ LastNumber(Seen(t) \cup {row}) = row.number
    BY <1>3, <1>7, NumberedNext
  <2>3. Ordered(Seen(t) \cup {row})
    BY <1>3, <1>7, OrderedNext
  <2>4. Generates(r) => Asked(t)'
    BY <2>1, <2>2, <1>2, <1>7 DEF Asked
  <2> QED BY <2>1, <2>2, <2>3, <2>4, <1>4, <1>7
<1> QED BY <1>5, <1>6, <1>7, Zenon DEF Legal, RowsLegal

\* A legal step of one request keeps the chat and the other requests in order.
LEMMA LegalStep ==
  ASSUME Inductive, NEW t \in Tabs, NEW r, Becomes(t, r), Legal(t, r)
  PROVE  Core'
<1>1. /\ req' = [req EXCEPT ![t] = r] /\ req \in [Tabs -> Request]
      /\ UNCHANGED <<messages, owner, handoffs>>
  BY DEF Becomes, Inductive, TypeOK, chat
<1>2. req' \in [Tabs -> Request]
  BY <1>1 DEF Legal
<1>3. req'[t] = r /\ \A u \in Tabs \ {t} : req'[u] = req[u]
  BY <1>1
<1>4. RequestsWellFormed'
  <2>1. \A u \in Tabs : WellFormed(req'[u])
    BY <1>3 DEF Legal, Inductive, RequestsWellFormed
  <2> QED BY <2>1 DEF RequestsWellFormed, WellFormed
<1>5. OwnerHeld'
  BY <1>1, <1>3 DEF Legal, Inductive, OwnerHeld
<1>6. OwnerChain' /\ MessagesDense' /\ AnswerFollowsQuestion'
  BY <1>1 DEF Inductive, OwnerChain, MessagesDense, AnswerFollowsQuestion
<1>7. \A u \in Tabs \ {t} : Seen(u)' = Seen(u)
  BY <1>1, <1>3 DEF Seen
<1>8. RolesOfRows' /\ SeenInOrder'
  <2>1. \A u \in Tabs :
          /\ Numbered(Seen(u)') /\ Ordered(Seen(u)')
          /\ \A m \in Seen(u)' : m.text = "question" <=> m.role = "user"
    BY <1>7, StepRows DEF Inductive, RolesOfRows, SeenInOrder
  <2> QED BY <2>1, Zenon DEF RolesOfRows, SeenInOrder, Numbered, Ordered, LastNumber
<1>9. GeneratingAsked'
  <2>1. \A u \in Tabs \ {t} : Asked(u) => Asked(u)'
    BY <1>3, <1>7 DEF Asked
  <2>2. Generates(r) => Asked(t)'
    BY StepRows
  <2> QED BY <2>1, <2>2, <1>3 DEF GeneratingAsked, Inductive, Generates
<1> QED BY <1>2, <1>4, <1>5, <1>6, <1>8, <1>9, <1>1, StepApart DEF Core

-----------------------------------------------------------------------------
(* The locks of the subjects follow the requests.                          *)

LocksFollow(t, r) ==
  locks' = IF Runs(r) THEN locks \cup {UserOf[t]}
           ELSE IF Running(t) THEN locks \ {UserOf[t]} ELSE locks

MishapsGrow == mishaps' = mishaps \/ \E w \in Mishaps : mishaps' = Append(mishaps, w)

\* Errors of the look-up are never forgotten.
LEMMA MishapsKept ==
  ASSUME mishaps \in Seq(Mishaps), MishapsGrow,
         \A i \in 1..Len(mishaps') : mishaps'[i] # "db_error"
  PROVE  \A i \in 1..Len(mishaps) : mishaps[i] # "db_error"
<1>1. CASE mishaps' = mishaps
  BY <1>1
<1>2. ASSUME NEW w \in Mishaps, mishaps' = Append(mishaps, w)
      PROVE  \A i \in 1..Len(mishaps) : mishaps[i] # "db_error"
  <2>1. /\ Len(mishaps) \in Nat /\ Len(mishaps') = Len(mishaps) + 1
        /\ \A i \in 1..Len(mishaps) : mishaps'[i] = mishaps[i]
    BY <1>2
  <2> QED BY <2>1
<1> QED BY <1>1, <1>2 DEF MishapsGrow

\* A lock is taken with a request that starts to run and released with one
\* that ends.
LEMMA LocksStep ==
  ASSUME Inductive, NEW t \in Tabs, NEW r, req' = [req EXCEPT ![t] = r], Legal(t, r),
         LocksFollow(t, r), MishapsGrow
  PROVE  LocksHeldByRequests'
<1> DEFINE holders == {UserOf[u] : u \in {v \in Tabs : Running(v)}}
           after == {UserOf[u] : u \in {v \in Tabs : Runs(req'[v])}}
<1>1. req' = [req EXCEPT ![t] = r] /\ req \in [Tabs -> Request]
  BY DEF Inductive, TypeOK
<1>2. /\ holders \subseteq locks
      /\ (\A i \in 1..Len(mishaps) : mishaps[i] # "db_error") => locks \subseteq holders
  BY DEF Inductive, LocksHeldByRequests
<1>3. /\ Runs(req'[t]) <=> Runs(r)
      /\ \A u \in Tabs \ {t} : Runs(req'[u]) <=> Running(u)
  BY <1>1 DEF Runs, Running
<1>4. \A u \in Tabs \ {t} : Running(u) => ~Running(t) \/ UserOf[u] # UserOf[t]
  BY DEF Inductive, GenerationsApart
<1>5. after \subseteq locks'
  BY <1>2, <1>3, <1>4 DEF LocksFollow
<1>6. ASSUME \A i \in 1..Len(mishaps') : mishaps'[i] # "db_error"
      PROVE  locks' \subseteq after
  <2>1. locks \subseteq holders
    BY <1>2, <1>6, MishapsKept DEF Inductive, TypeOK
  <2>2. \A u \in Tabs \ {t} : Running(u) => UserOf[u] \in after
    BY <1>3
  <2>3. Runs(r) => UserOf[t] \in after
    BY <1>3
  <2>4. holders \subseteq after \cup {UserOf[t]} /\ (~Running(t) => holders \subseteq after)
    BY <2>2
  <2> QED BY <2>1, <2>3, <2>4 DEF LocksFollow
<1>7. \A u \in Tabs : Running(u)' <=> Runs(req'[u])
  BY DEF Running, Runs
<1> QED BY <1>5, <1>6, <1>7 DEF LocksHeldByRequests

LegalAction(t) ==
  \E r : Becomes(t, r) /\ Legal(t, r) /\ LocksFollow(t, r)

-----------------------------------------------------------------------------
(* The steps of a request.                                                 *)

LEMMA NoRequestLegal ==
  /\ NoRequest \in Request /\ WellFormed(NoRequest)
  /\ \A t \in Tabs : Legal(t, NoRequest)
<1>1. NoRequest \in Request
  BY DEF NoRequest, Request, Phases, Keys
<1>2. WellFormed(NoRequest)
  BY DEF WellFormed, NoRequest, Waits
<1>3. ~Runs(NoRequest) /\ ~Asks(NoRequest) /\ ~Generates(NoRequest)
  BY DEF NoRequest, Runs, Asks, Generates
<1>4. /\ ~NoRequest.locked /\ NoRequest.op = "ask" /\ NoRequest.rows = {}
  BY DEF NoRequest
<1> QED BY <1>1, <1>2, <1>3, <1>4 DEF Legal, RowsLegal

\* A row is stored while the request holds the row of the chat.
LEMMA InsertLegal ==
  ASSUME Inductive, NEW t \in Tabs, NEW wait \in Waits, Insert(t, wait),
         UNCHANGED chat, RowFree(t), req[t].op = "ask", req[t].inChat,
         req[t].phase \in {"open", "generating"} \cup Waits,
         wait = "answer_wait" => Asked(t)
  PROVE  \E r : /\ Becomes(t, r) /\ Legal(t, r)
                /\ r.op = "ask" /\ r.phase = After(wait)
<1> DEFINE row == RowFor(t, wait)
           r == [req[t] EXCEPT !.phase = After(wait), !.locked = TRUE,
                               !.rows = @ \cup {row}]
<1>1. req \in [Tabs -> Request] /\ req[t] \in Request /\ WellFormed(req[t])
  BY DEF Inductive, TypeOK, RequestsWellFormed
<1>2. Becomes(t, r)
  BY <1>1 DEF Becomes, Insert
<1>3. LastNumber(Seen(t)) \in Nat
  BY DEF Inductive, SeenInOrder, Numbered
<1>4. /\ row \in Message
      /\ row.number = LastNumber(Seen(t)) + 1
      /\ row.key = req[t].key
      /\ row.text = "question" <=> wait = "question_wait"
      /\ row.role = "user" <=> wait = "question_wait"
      /\ row.text = "answer" <=> wait = "answer_wait"
  BY <1>1, <1>3 DEF RowFor, NewRow, NextNumber, Message, Waits, Request
<1> HIDE DEF row
<1>5. /\ After(wait) = "generating" <=> wait = "question_wait"
      /\ After(wait) = "closing" <=> wait = "cancel_wait"
      /\ After(wait) \in {"generating", "ending", "closing"}
  BY DEF After, Waits
<1>6. r \in Request
  BY <1>1, <1>4, <1>5 DEF Request, Phases
<1>7. /\ r.phase = After(wait) /\ r.locked /\ r.rows = req[t].rows \cup {row}
      /\ r.op = "ask" /\ r.inChat /\ r.key = req[t].key
      /\ r.settles = req[t].settles
  BY <1>1 DEF Request
<1>8. ~req[t].settles /\ \A m \in req[t].rows : m.role = "user"
  BY <1>1 DEF WellFormed
<1>9. WellFormed(r)
  BY <1>4, <1>5, <1>7, <1>8 DEF WellFormed, Waits
<1>10. RowsLegal(t, r)
  <2>1. row.text = "answer" =>
          \E q \in Seen(t) : /\ q.text = "question" /\ q.key = row.key
                             /\ row.key = NoKey => q.number = LastNumber(Seen(t))
    BY <1>4 DEF Asked
  <2>2. Generates(r) => row.text = "question" /\ row.key = r.key
    BY <1>4, <1>5, <1>7 DEF Generates
  <2> QED BY <2>1, <2>2, <1>4, <1>7 DEF RowsLegal
<1>11. Running(t) /\ Asking(t)
  BY DEF Running, Asking, Waits
<1>12. Legal(t, r)
  BY <1>6, <1>7, <1>9, <1>10, <1>11 DEF Legal
<1> QED BY <1>2, <1>7, <1>12

\* A request goes on without storing anything.
LEMMA GoLegal ==
  ASSUME Inductive, NEW t \in Tabs,
         NEW p \in {"generating", "ending", "closing", "leaving"} \cup Waits,
         NEW s \in BOOLEAN,
         Becomes(t, [req[t] EXCEPT !.phase = p, !.settles = s]),
         req[t].op = "ask", req[t].phase # "idle",
         p \in {"generating"} \cup Waits =>
           req[t].phase \in {"open", "generating"} \cup Waits /\ ~s,
         s => req[t].inChat /\ (req[t].settles \/ req[t].phase = "generating"),
         Running(t) \/ p \in {"closing", "leaving"},
         p \in Waits => req[t].inChat,
         p \in {"generating", "answer_wait"} /\ req[t].inChat => Asked(t)
  PROVE  \E r : /\ Becomes(t, r) /\ Legal(t, r)
                /\ r.op = "ask" /\ r.phase = p
<1> DEFINE r == [req[t] EXCEPT !.phase = p, !.settles = s]
<1>1. req[t] \in Request /\ WellFormed(req[t])
  BY DEF Inductive, TypeOK, RequestsWellFormed
<1>2. r \in Request
  BY <1>1 DEF Request, Phases, Waits
<1>3. /\ r.phase = p /\ r.settles = s /\ r.op = "ask"
      /\ r.inChat = req[t].inChat /\ r.key = req[t].key
      /\ r.rows = req[t].rows /\ r.locked = req[t].locked
  BY <1>1 DEF Request
<1>4. p \notin {"idle", "reading", "open"}
  BY DEF Waits
<1>5. WellFormed(r)
  BY <1>1, <1>3, <1>4 DEF WellFormed
<1>6. RowsLegal(t, r)
  <2>1. Generates(r) => Asked(t)
    BY <1>3 DEF Generates
  <2> QED BY <2>1, <1>3 DEF RowsLegal, Asked
<1>7. Asking(t)
  BY DEF Asking
<1>8. Runs(r) <=> p \notin {"closing", "leaving"}
  BY <1>3, <1>4 DEF Runs
<1>9. Legal(t, r)
  BY <1>2, <1>3, <1>5, <1>6, <1>7, <1>8 DEF Legal
<1> QED BY <1>3, <1>9

\* The same, from the step itself.
LEMMA GoStep ==
  ASSUME Inductive, NEW t \in Tabs,
         NEW p \in {"generating", "ending", "closing", "leaving"} \cup Waits,
         Go(t, p), UNCHANGED chat,
         req[t].op = "ask", req[t].phase # "idle",
         p \in {"generating"} \cup Waits =>
           req[t].phase \in {"open", "generating"} \cup Waits,
         Running(t) \/ p \in {"closing", "leaving"},
         p \in Waits => req[t].inChat,
         p \in {"generating", "answer_wait"} /\ req[t].inChat => Asked(t)
  PROVE  \E r : /\ Becomes(t, r) /\ Legal(t, r)
                /\ r.op = "ask" /\ r.phase = p
<1>1. req \in [Tabs -> Request] /\ req[t] \in Request /\ WellFormed(req[t])
  BY DEF Inductive, TypeOK, RequestsWellFormed
<1>2. Becomes(t, [req[t] EXCEPT !.phase = p, !.settles = req[t].settles])
  BY <1>1 DEF Becomes, Go, Request
<1>3. req[t].settles \in BOOLEAN
  BY <1>1 DEF Request
<1>4. p \in {"generating"} \cup Waits => ~req[t].settles
  BY <1>1 DEF WellFormed
<1>5. req[t].settles => req[t].inChat
  BY <1>1 DEF WellFormed
<1> QED BY <1>2, <1>3, <1>4, <1>5, GoLegal

\* append_message, whether it finds a row, stores one or has to wait.
LEMMA StoreLegal ==
  ASSUME Inductive, NEW t \in Tabs, NEW wait \in Waits, Store(t, wait),
         UNCHANGED chat, req[t].op = "ask", req[t].inChat,
         req[t].phase \in {"open", "generating"},
         wait = "answer_wait" => Asked(t)
  PROVE  \E r : /\ Becomes(t, r) /\ Legal(t, r)
                /\ r.op = "ask" /\ r.phase \in {wait, After(wait)}
<1> DEFINE role == IF wait = "question_wait" THEN "user" ELSE "assistant"
<1>1. After(wait) \in {"generating", "ending", "closing"}
  BY DEF After, Waits
<1>2. ~req[t].settles /\ Running(t)
  BY DEF Inductive, RequestsWellFormed, WellFormed, Running
<1>3. CASE Found(t, role) # {} /\ Go(t, After(wait))
  <2>1. After(wait) = "generating" => Asked(t)
    <3>1. After(wait) = "generating" => wait = "question_wait"
      BY DEF After, Waits
    <3>2. PICK q \in Seen(t) : q.role = role /\ q.key = req[t].key /\ q.key # NoKey
      BY <1>3 DEF Found
    <3>3. wait = "question_wait" => q.text = "question"
      BY <3>2 DEF Inductive, RolesOfRows
    <3> QED BY <3>1, <3>2, <3>3 DEF Asked
  <2>2. After(wait) \notin Waits
    BY <1>1 DEF Waits
  <2> QED BY <1>1, <1>2, <1>3, <2>1, <2>2, GoStep
<1>4. CASE Found(t, role) = {} /\ RowFree(t) /\ Insert(t, wait)
  BY <1>4, InsertLegal
<1>5. CASE Found(t, role) = {} /\ Go(t, wait)
  <2>1. wait # "generating"
    BY DEF Waits
  <2> QED BY <1>2, <1>5, <2>1, GoStep
<1> QED BY <1>3, <1>4, <1>5 DEF Store

\* persist_failure, and the answer, in the chat or outside.
LEMMA PersistLegal ==
  ASSUME Inductive, NEW t \in Tabs, NEW wait \in Waits \ {"question_wait"},
         PersistFailure(t, wait), UNCHANGED chat, req[t].op = "ask",
         req[t].phase \in {"open", "generating"},
         wait = "answer_wait" /\ req[t].inChat => Asked(t)
  PROVE  \E r : /\ Becomes(t, r) /\ Legal(t, r)
                /\ r.op = "ask" /\ r.phase \in {wait, After(wait)}
<1>1. CASE req[t].inChat
  <2>1. Store(t, wait)
    BY <1>1 DEF PersistFailure
  <2> QED BY <1>1, <2>1, StoreLegal
<1>2. CASE ~req[t].inChat
  <2>1. Go(t, After(wait)) /\ After(wait) \in {"ending", "closing"}
    BY <1>2 DEF PersistFailure, After, Waits
  <2>2. ~req[t].settles /\ Running(t)
    BY DEF Inductive, RequestsWellFormed, WellFormed, Running
  <2>3. After(wait) \notin Waits \cup {"generating", "answer_wait"}
    BY <2>1 DEF Waits
  <2> QED BY <2>1, <2>2, <2>3, GoStep
<1> QED BY <1>1, <1>2, Zenon DEF Inductive, TypeOK

-----------------------------------------------------------------------------
(* The actions.                                                            *)

\* A request that goes on running keeps its lock, one that ends gives it up.
LEMMA FollowGoesOn ==
  ASSUME Inductive, NEW t \in Tabs, Running(t), NEW r, Runs(r), locks' = locks
  PROVE  LocksFollow(t, r)
  BY DEF Inductive, LocksHeldByRequests, LocksFollow

LEMMA FollowEnds ==
  ASSUME NEW t \in Tabs, Running(t), NEW r, ~Runs(r), Release(t)
  PROVE  LocksFollow(t, r)
  BY DEF Release, LocksFollow

LEMMA FollowNone ==
  ASSUME NEW t \in Tabs, ~Running(t), NEW r, ~Runs(r), locks' = locks
  PROVE  LocksFollow(t, r)
  BY DEF LocksFollow

\* Only questions have the phases of a question.
LEMMA AskPhases ==
  ASSUME Inductive, NEW t \in Tabs,
         req[t].phase \in {"open", "generating", "json", "ending"} \cup Waits
  PROVE  /\ req[t].op = "ask" /\ Running(t)
         /\ req[t].phase \in Waits => req[t].inChat
<1>1. WellFormed(req[t]) /\ req[t] \in Request
  BY DEF Inductive, TypeOK, RequestsWellFormed
<1>2. req[t].phase \notin {"idle", "reading", "closing", "leaving"}
  BY DEF Waits
<1>3. req[t].op = "ask"
  BY <1>1, <1>2 DEF WellFormed
<1> QED BY <1>1, <1>2, <1>3 DEF WellFormed, Running

LEMMA AskLegal ==
  ASSUME Inductive, NEW t \in Tabs, NEW k \in KeysOf[t], NEW w \in Ways, Ask(t, k, w)
  PROVE  LegalAction(t)
<1> DEFINE r == [NoRequest EXCEPT !.phase = IF w.streams THEN "open" ELSE "json",
                                  !.inChat = w.inChat, !.key = k]
<1>1. k \in Keys /\ w \in [inChat : BOOLEAN, streams : BOOLEAN]
  BY ConstantsAssumption DEF Keys
<1>2. /\ r.phase \in {"open", "json"} /\ r.op = "ask" /\ r.inChat = w.inChat
      /\ r.key = k /\ r.rows = {} /\ ~r.settles /\ ~r.locked
  BY DEF NoRequest
<1>3. r \in Request
  BY <1>1, NoRequestLegal DEF Request, Phases
<1>4. WellFormed(r)
  BY <1>2 DEF WellFormed, Waits
<1>5. RowsLegal(t, r) /\ Runs(r)
  BY <1>2 DEF RowsLegal, Generates, Runs
<1>6. Becomes(t, r)
  BY DEF Ask, Becomes
<1>7. Legal(t, r)
  BY <1>2, <1>3, <1>4, <1>5 DEF Legal, Ask
<1>8. LocksFollow(t, r)
  BY <1>5 DEF LocksFollow, Ask
<1> QED BY <1>6, <1>7, <1>8 DEF LegalAction

\* Steps of a question that keep its lock.
LEMMA QuestionGoesOn ==
  ASSUME Inductive, NEW t \in Tabs,
         \/ RefuseAttachment(t) \/ Replay(t) \/ StoreQuestion(t)
         \/ StoreAnswer(t) \/ FailGeneration(t)
  PROVE  LegalAction(t)
<1>1. req[t].op = "ask" /\ Running(t) /\ ~req[t].settles
  <2>1. req[t].phase \in {"open", "generating"}
    BY DEF RefuseAttachment, Replay, StoreQuestion, StoreAnswer, FailGeneration
  <2> QED BY <2>1, AskPhases DEF Inductive, RequestsWellFormed, WellFormed
<1>2. locks' = locks /\ UNCHANGED chat
  BY DEF RefuseAttachment, Replay, StoreQuestion, StoreAnswer, FailGeneration
<1> SUFFICES \E r : /\ Becomes(t, r) /\ Legal(t, r) /\ r.op = "ask"
                    /\ r.phase \in {"generating", "ending"} \cup Waits
  <2>1. ASSUME NEW r, r.op = "ask", r.phase \in {"generating", "ending"} \cup Waits
        PROVE  LocksFollow(t, r)
    BY <1>1, <1>2, <2>1, FollowGoesOn DEF Runs, Waits
  <2> QED BY <2>1 DEF LegalAction
<1>3. CASE RefuseAttachment(t) \/ FailGeneration(t)
  <2>1. PersistFailure(t, "failure_wait") /\ req[t].phase \in {"open", "generating"}
    BY <1>3 DEF RefuseAttachment, FailGeneration
  <2>2. After("failure_wait") = "ending" /\ "failure_wait" \in Waits
    BY DEF After, Waits
  <2> QED BY <1>1, <1>2, <2>1, <2>2, PersistLegal
<1>4. CASE Replay(t)
  <2>1. Go(t, "ending") /\ "ending" \notin Waits
    BY <1>4 DEF Replay, Waits
  <2> QED BY <1>1, <1>2, <2>1, GoStep DEF Running
<1>5. CASE StoreQuestion(t)
  <2>1. req[t].phase = "open"
    BY <1>5 DEF StoreQuestion
  <2>2. CASE req[t].inChat
    <3>1. Store(t, "question_wait")
      BY <1>5, <2>2 DEF StoreQuestion
    <3>2. After("question_wait") = "generating" /\ "question_wait" \in Waits
      BY DEF After, Waits
    <3> QED BY <1>1, <1>2, <2>1, <2>2, <3>1, <3>2, StoreLegal
  <2>3. CASE ~req[t].inChat
    <3>1. Go(t, "generating") /\ "generating" \notin Waits
      BY <1>5, <2>3 DEF StoreQuestion, Waits
    <3> QED BY <1>1, <1>2, <2>1, <2>3, <3>1, GoStep
  <2> QED BY <2>2, <2>3, Zenon
<1>6. CASE StoreAnswer(t)
  <2>1. req[t].phase = "generating" /\ (req[t].inChat => Asked(t))
    BY <1>6 DEF StoreAnswer, Inductive, GeneratingAsked
  <2>2. CASE req[t].inChat /\ Found(t, "assistant") # {}
    <3>1. req' = [req EXCEPT ![t].phase = "ending", ![t].settles = TRUE]
      BY <1>6, <2>2 DEF StoreAnswer
    <3>2. Becomes(t, [req[t] EXCEPT !.phase = "ending", !.settles = TRUE])
      BY <3>1, <1>2 DEF Becomes, Inductive, TypeOK, Request
    <3>3. /\ "ending" \notin Waits \cup {"generating", "answer_wait"}
          /\ "ending" \in {"generating", "ending", "closing", "leaving"} \cup Waits
          /\ req[t].phase # "idle" /\ TRUE \in BOOLEAN
      BY <2>1 DEF Waits
    <3>4. \E r : /\ Becomes(t, r) /\ Legal(t, r)
                 /\ r.op = "ask" /\ r.phase = "ending"
      <4>1. "ending" \notin {"generating"} \cup Waits
            /\ "ending" \notin {"generating", "answer_wait"}
        BY <3>3
      <4> QED BY <1>1, <2>1, <2>2, <3>2, <3>3, <4>1, GoLegal, Zenon
    <3> QED BY <3>4
  <2>3. CASE ~(req[t].inChat /\ Found(t, "assistant") # {})
    <3>1. PersistFailure(t, "answer_wait")
      BY <1>6, <2>3 DEF StoreAnswer
    <3>2. After("answer_wait") = "ending" /\ "answer_wait" \in Waits
      BY DEF After, Waits
    <3> QED BY <1>1, <1>2, <2>1, <3>1, <3>2, PersistLegal
  <2> QED BY <2>2, <2>3
<1> QED BY <1>3, <1>4, <1>5, <1>6

\* Steps that end the generator or the JSON answer.
LEMMA QuestionEnds ==
  ASSUME Inductive, NEW t \in Tabs, AnswerJson(t) \/ EndStream(t) \/ Abandon(t)
  PROVE  LegalAction(t)
<1>1. /\ req[t].phase \in {"json", "ending", "generating"}
      /\ Go(t, "closing") /\ Release(t) /\ UNCHANGED chat
  BY DEF AnswerJson, EndStream, Abandon
<1>2. req[t].op = "ask" /\ Running(t) /\ "closing" \notin Waits
  BY <1>1, AskPhases DEF Waits
<1>3. PICK r : Becomes(t, r) /\ Legal(t, r) /\ r.op = "ask" /\ r.phase = "closing"
  BY <1>1, <1>2, GoStep
<1>4. LocksFollow(t, r)
  BY <1>1, <1>2, <1>3, FollowEnds DEF Runs
<1> QED BY <1>3, <1>4 DEF LegalAction

\* A step after which the request runs or has released its lock.
LEMMA FollowPhase ==
  ASSUME Inductive, NEW t \in Tabs, Running(t),
         NEW r, Becomes(t, r), r.op = "ask",
         r.phase \in {"generating", "ending", "closing"} \cup Waits,
         IF r.phase = "closing" THEN Release(t) ELSE locks' = locks
  PROVE  LocksFollow(t, r)
<1>1. Runs(r) <=> r.phase # "closing"
  BY DEF Runs, Waits
<1> QED BY <1>1, FollowGoesOn, FollowEnds

LEMMA GrantedLegal ==
  ASSUME Inductive, NEW t \in Tabs, Granted(t)
  PROVE  LegalAction(t)
<1>1. /\ req[t].phase \in Waits /\ RowFree(t) /\ Insert(t, req[t].phase)
      /\ UNCHANGED chat
  BY DEF Granted, Blocked
<1>2. req[t].op = "ask" /\ Running(t) /\ req[t].inChat
  BY <1>1, AskPhases
<1>3. req[t].phase = "answer_wait" => Asked(t)
  BY <1>2 DEF Inductive, GeneratingAsked
<1>4. PICK r : Becomes(t, r) /\ Legal(t, r) /\ r.op = "ask" /\ r.phase = After(req[t].phase)
  BY <1>1, <1>2, <1>3, InsertLegal
<1>5. /\ After(req[t].phase) \in {"generating", "ending", "closing"}
      /\ After(req[t].phase) = "closing" <=> req[t].phase = "cancel_wait"
  BY <1>1 DEF After, Waits
<1>6. LocksFollow(t, r)
  BY <1>2, <1>4, <1>5, FollowPhase DEF Granted
<1> QED BY <1>4, <1>6 DEF LegalAction

LEMMA TimedOutLegal ==
  ASSUME Inductive, NEW t \in Tabs, TimedOut(t)
  PROVE  LegalAction(t)
<1> DEFINE p == IF req[t].phase = "cancel_wait" THEN "closing" ELSE "ending"
           r == [req[t] EXCEPT !.aborted = TRUE, !.rows = {}, !.phase = p]
<1>1. req \in [Tabs -> Request] /\ req[t] \in Request /\ WellFormed(req[t])
  BY DEF Inductive, TypeOK, RequestsWellFormed
<1>2. req[t].op = "ask" /\ Running(t) /\ req[t].inChat /\ req[t].phase \in Waits
  BY AskPhases DEF TimedOut, Blocked
<1>3. Becomes(t, r)
  BY <1>1 DEF TimedOut, Becomes
<1>4. /\ r.phase = p /\ r.op = "ask" /\ r.rows = {} /\ r.inChat
      /\ r.settles = req[t].settles /\ r.locked = req[t].locked
  BY <1>1, <1>2 DEF Request
<1>5. r \in Request
  BY <1>1 DEF Request, Phases
<1>6. WellFormed(r)
  BY <1>1, <1>2, <1>4 DEF WellFormed, Waits
<1>7. RowsLegal(t, r) /\ Asking(t)
  BY <1>2, <1>4 DEF RowsLegal, Generates, Asking, Running
<1>8. Legal(t, r)
  BY <1>2, <1>4, <1>5, <1>6, <1>7 DEF Legal
<1>9. LocksFollow(t, r)
  <2>1. /\ r.phase \in {"ending", "closing"}
        /\ IF r.phase = "closing" THEN Release(t) ELSE locks' = locks
    BY <1>4 DEF TimedOut
  <2> HIDE DEF r, p
  <2> QED BY <2>1, <1>2, <1>3, <1>4, FollowPhase
<1> QED BY <1>3, <1>8, <1>9 DEF LegalAction

LEMMA DisconnectLegal ==
  ASSUME Inductive, NEW t \in Tabs, Disconnect(t)
  PROVE  LegalAction(t)
<1>1. /\ req[t].phase = "generating" /\ PersistFailure(t, "cancel_wait")
      /\ UNCHANGED chat
      /\ IF req'[t].phase = "closing" THEN Release(t) ELSE UNCHANGED locks
  BY DEF Disconnect
<1>2. req[t].op = "ask" /\ Running(t)
  BY <1>1, AskPhases
<1>3. After("cancel_wait") = "closing" /\ "cancel_wait" \in Waits \ {"question_wait"}
  BY DEF After, Waits
<1>4. PICK r : /\ Becomes(t, r) /\ Legal(t, r)
               /\ r.op = "ask" /\ r.phase \in {"cancel_wait", "closing"}
  BY <1>1, <1>2, <1>3, PersistLegal
<1>5. req'[t] = r
  BY <1>4 DEF Becomes, Inductive, TypeOK
<1>6. LocksFollow(t, r)
  BY <1>1, <1>2, <1>3, <1>4, <1>5, FollowPhase
<1> QED BY <1>4, <1>6 DEF LegalAction

\* The routes that write the row of the chat.
LEMMA RouteLegal ==
  ASSUME Inductive, NEW t \in Tabs,
         \/ \E s \in Subjects : ReadForHandoff(t, s)
         \/ ReadForUpdate(t) \/ LockRow(t) \/ RouteTimedOut(t)
  PROVE  LegalAction(t)
<1>1. /\ req \in [Tabs -> Request] /\ req[t] \in Request /\ WellFormed(req[t])
      /\ NoRequest \in Request
  BY NoRequestLegal DEF Inductive, TypeOK, RequestsWellFormed
<1>2. locks' = locks /\ UNCHANGED chat
  BY DEF ReadForHandoff, ReadForUpdate, LockRow, RouteTimedOut
<1>3. ~Running(t)
  <2>1. req[t].phase \in {"idle", "reading"}
    BY DEF ReadForHandoff, ReadForUpdate, LockRow, RouteTimedOut
  <2> QED BY <2>1, <1>1 DEF Running, WellFormed
<1> SUFFICES \E r : /\ r \in Request /\ WellFormed(r) /\ Becomes(t, r)
                    /\ r.op # "ask" /\ r.rows = {}
                    /\ r.phase \in {"reading", "closing"}
                    /\ r.locked => req[t].locked \/ RowFree(t)
                    /\ r.op = "handoff" /\ r.phase # "reading" /\ ~r.aborted =>
                         owner = UserOf[t]
  <2>1. ASSUME NEW r, r.op # "ask", r.rows = {}, r.phase \in {"reading", "closing"}
        PROVE  ~Runs(r) /\ ~Asks(r) /\ RowsLegal(t, r)
    BY <2>1 DEF Runs, Asks, RowsLegal, Generates
  <2> QED BY <2>1, <1>2, <1>3, FollowNone DEF Legal, LegalAction
<1>4. ASSUME NEW s \in Subjects, ReadForHandoff(t, s)
      PROVE  \E r : /\ r \in Request /\ WellFormed(r) /\ Becomes(t, r)
                    /\ r.op # "ask" /\ r.rows = {}
                    /\ r.phase \in {"reading", "closing"}
                    /\ r.locked => req[t].locked \/ RowFree(t)
                    /\ r.op = "handoff" /\ r.phase # "reading" /\ ~r.aborted =>
                         owner = UserOf[t]
  <2> DEFINE r == [NoRequest EXCEPT !.phase = "reading", !.op = "handoff",
                                    !.recipient = s]
  <2>1. /\ r.phase = "reading" /\ r.op = "handoff" /\ r.recipient = s
        /\ r.rows = {} /\ ~r.settles /\ ~r.locked
    BY DEF NoRequest
  <2>2. r \in Request
    BY <1>1 DEF Request, Phases
  <2>3. WellFormed(r)
    BY <2>1 DEF WellFormed, Waits
  <2>4. Becomes(t, r)
    BY <1>2, <1>4 DEF Becomes, ReadForHandoff
  <2> QED BY <2>1, <2>2, <2>3, <2>4
<1>5. CASE ReadForUpdate(t)
  <2> DEFINE r == [NoRequest EXCEPT !.phase = "reading", !.op = "update"]
  <2>1. /\ r.phase = "reading" /\ r.op = "update"
        /\ r.rows = {} /\ ~r.settles /\ ~r.locked
    BY DEF NoRequest
  <2>2. r \in Request
    BY <1>1 DEF Request, Phases
  <2>3. WellFormed(r)
    BY <2>1 DEF WellFormed, Waits
  <2>4. Becomes(t, r)
    BY <1>2, <1>5 DEF Becomes, ReadForUpdate
  <2> QED BY <2>1, <2>2, <2>3, <2>4
<1>6. CASE LockRow(t)
  <2> DEFINE b == (req[t].op = "handoff" /\ owner # UserOf[t])
             r == [req[t] EXCEPT !.phase = "closing", !.locked = TRUE, !.aborted = b]
  <2>1. req[t].phase = "reading" /\ RowFree(t)
    BY <1>6 DEF LockRow
  <2>2. req[t].op # "ask" /\ req[t].rows = {} /\ ~req[t].settles
    BY <1>1, <2>1 DEF WellFormed
  <2>3. /\ r.phase = "closing" /\ r.op = req[t].op /\ r.rows = {} /\ ~r.settles
        /\ r.locked /\ r.recipient = req[t].recipient /\ r.inChat = req[t].inChat
        /\ ~r.aborted => ~b
    BY <1>1, <2>2 DEF Request
  <2>4. r \in Request
    <3>1. b \in BOOLEAN
      OBVIOUS
    <3> HIDE DEF b
    <3> QED BY <1>1, <3>1 DEF Request, Phases
  <2>5. WellFormed(r)
    BY <1>1, <2>2, <2>3 DEF WellFormed, Waits
  <2>6. Becomes(t, r)
    BY <1>1, <1>2, <1>6 DEF Becomes, LockRow
  <2> QED BY <2>1, <2>2, <2>3, <2>4, <2>5, <2>6
<1>7. CASE RouteTimedOut(t)
  <2> DEFINE r == [req[t] EXCEPT !.phase = "closing", !.aborted = TRUE]
  <2>1. req[t].phase = "reading"
    BY <1>7 DEF RouteTimedOut
  <2>2. req[t].op # "ask" /\ req[t].rows = {} /\ ~req[t].settles
    BY <1>1, <2>1 DEF WellFormed
  <2>3. /\ r.phase = "closing" /\ r.op = req[t].op /\ r.rows = {} /\ ~r.settles
        /\ r.locked = req[t].locked /\ r.recipient = req[t].recipient
        /\ r.inChat = req[t].inChat /\ r.aborted
    BY <1>1, <2>2 DEF Request
  <2>4. r \in Request
    BY <1>1 DEF Request, Phases
  <2>5. WellFormed(r)
    BY <1>1, <2>2, <2>3 DEF WellFormed, Waits
  <2>6. Becomes(t, r)
    BY <1>1, <1>2, <1>7 DEF Becomes, RouteTimedOut
  <2> QED BY <2>1, <2>2, <2>3, <2>4, <2>5, <2>6
<1> QED BY <1>4, <1>5, <1>6, <1>7

LEMMA ExitLegal ==
  ASSUME Inductive, NEW t \in Tabs, Exit(t) \/ Rollback(t)
  PROVE  LegalAction(t)
<1>1. /\ req \in [Tabs -> Request] /\ req[t] \in Request /\ WellFormed(req[t])
      /\ locks' = locks /\ UNCHANGED chat /\ req[t].phase \in {"closing", "leaving"}
  BY DEF Inductive, TypeOK, RequestsWellFormed, Exit, Rollback
<1>2. ~Running(t)
  BY <1>1 DEF Running
<1>3. CASE Exit(t)
  <2> DEFINE r == [req[t] EXCEPT !.phase = "leaving"]
  <2>1. req[t].phase = "closing"
    BY <1>3 DEF Exit
  <2>2. /\ r.phase = "leaving" /\ r.op = req[t].op /\ r.rows = req[t].rows
        /\ r.settles = req[t].settles /\ r.locked = req[t].locked
        /\ r.recipient = req[t].recipient /\ r.inChat = req[t].inChat
        /\ r.aborted = req[t].aborted
    BY <1>1 DEF Request
  <2>3. r \in Request
    BY <1>1 DEF Request, Phases
  <2>4. WellFormed(r)
    BY <1>1, <2>1, <2>2 DEF WellFormed, Waits
  <2>5. ~Runs(r) /\ (Asks(r) => Asking(t)) /\ RowsLegal(t, r)
    BY <2>1, <2>2 DEF Runs, Asks, Asking, RowsLegal, Generates
  <2>6. r.op = "handoff" /\ r.phase # "reading" /\ ~r.aborted => owner = UserOf[t]
    BY <2>1, <2>2 DEF Inductive, OwnerHeld
  <2>7. Legal(t, r)
    BY <2>2, <2>3, <2>4, <2>5, <2>6 DEF Legal
  <2>8. Becomes(t, r)
    BY <1>1, <1>3 DEF Becomes, Exit, Go
  <2> QED BY <2>5, <2>7, <2>8, <1>1, <1>2, FollowNone DEF LegalAction
<1>4. CASE Rollback(t)
  <2>1. Becomes(t, NoRequest)
    BY <1>1, <1>4 DEF Becomes, Rollback
  <2>2. ~Runs(NoRequest)
    BY DEF Runs, NoRequest
  <2> QED BY <2>1, <2>2, <1>1, <1>2, FollowNone, NoRequestLegal DEF LegalAction
<1> QED BY <1>3, <1>4

-----------------------------------------------------------------------------
(* The end of a transaction.                                               *)

\* What a commit leaves is what the transaction saw, one status apart.
LEMMA CommitRows ==
  ASSUME Inductive, NEW t \in Tabs, Commit(t)
  PROVE  /\ messages' \subseteq Message
         /\ Numbered(messages') /\ Ordered(messages')
         /\ \A m \in messages' : m.text = "question" <=> m.role = "user"
<1> DEFINE found == Found(t, "assistant")
           mark(m) == IF req[t].settles /\ m \in found
                      THEN [m EXCEPT !.status = "COMPLETED"] ELSE m
<1>1. /\ req[t] \in Request /\ WellFormed(req[t]) /\ messages \subseteq Message
  BY DEF Inductive, TypeOK, RequestsWellFormed
<1>2. req[t].rows \subseteq Message /\ Seen(t) \subseteq Message
  BY <1>1 DEF Request, Seen
<1>3. \A m \in req[t].rows : mark(m) = m
  <2>1. req[t].settles => \A m \in req[t].rows : m.role = "user"
    BY <1>1 DEF WellFormed
  <2>2. \A m \in found : m.role = "assistant"
    BY DEF Found
  <2> QED BY <2>1, <2>2
<1>4. messages' = {mark(m) : m \in Seen(t)}
  <2>1. messages' = {mark(m) : m \in messages} \cup req[t].rows
    BY DEF Commit, Settled
  <2> HIDE DEF mark
  <2> QED BY <2>1, <1>3 DEF Seen
<1>5. \A m \in Seen(t) : mark(m) \in Message /\ Alike(m, mark(m)) /\ mark(m).role = m.role
  BY <1>2 DEF Message, Alike
<1> HIDE DEF mark
<1>6. Numbered(Seen(t)) /\ Ordered(Seen(t))
  BY DEF Inductive, SeenInOrder
<1>7. \A m, n \in messages' : m.number = n.number => m = n
  <2>1. \A m, n \in Seen(t) : mark(m).number = mark(n).number => mark(m) = mark(n)
    BY <1>5, <1>6 DEF Alike, Numbered
  <2> QED BY <2>1, <1>4
<1>8. Numbered(messages') /\ Ordered(messages')
  BY <1>4, <1>5, <1>6, <1>7, SameNumbers
<1>9. \A m \in messages' : m.text = "question" <=> m.role = "user"
  BY <1>4, <1>5 DEF Alike, Inductive, RolesOfRows
<1>10. messages' \subseteq Message
  BY <1>4, <1>5
<1> QED BY <1>8, <1>9, <1>10

\* Only a question of the chat changes the messages when it commits.
LEMMA CommitQuiet ==
  ASSUME Inductive, NEW t \in Tabs, Commit(t), ~(Asking(t) /\ req[t].inChat)
  PROVE  messages' = messages
<1>1. req[t] \in Request /\ WellFormed(req[t]) /\ req[t].phase = "leaving"
  BY DEF Inductive, TypeOK, RequestsWellFormed, Commit
<1>2. req[t].rows = {} /\ ~req[t].settles
  BY <1>1 DEF WellFormed, Asking
<1> QED BY <1>2 DEF Commit, Settled

\* A handoff that commits passes on what its sender owns.
LEMMA CommitOwner ==
  ASSUME Inductive, NEW t \in Tabs, Commit(t)
  PROVE  /\ owner' \in Subjects
         /\ handoffs' \in Seq([from : Subjects, to : Subjects])
         /\ OwnerChain'
         /\ req[t].op # "handoff" => owner' = owner
<1>1. /\ req[t] \in Request /\ WellFormed(req[t]) /\ owner \in Subjects
      /\ handoffs \in Seq([from : Subjects, to : Subjects])
      /\ req[t].phase = "leaving" /\ ~req[t].aborted /\ UserOf[t] \in Subjects
  BY ConstantsAssumption DEF Inductive, TypeOK, RequestsWellFormed, Commit
<1>2. CASE req[t].op # "handoff"
  BY <1>1, <1>2 DEF Commit, OwnerChain, Inductive
<1>3. CASE req[t].op = "handoff"
  <2> DEFINE event == [from |-> UserOf[t], to |-> req[t].recipient]
             n == Len(handoffs)
  <2>1. owner' = req[t].recipient /\ handoffs' = Append(handoffs, event)
    BY <1>3 DEF Commit
  <2>2. owner = UserOf[t] /\ req[t].recipient \in Subjects
    BY <1>1, <1>3 DEF Inductive, OwnerHeld, WellFormed
  <2>3. event \in [from : Subjects, to : Subjects] /\ event.from = owner
        /\ event.to = owner'
    BY <1>1, <2>1, <2>2
  <2> HIDE DEF event
  <2>4. /\ handoffs' \in Seq([from : Subjects, to : Subjects])
        /\ n \in Nat /\ Len(handoffs') = n + 1 /\ handoffs'[n + 1] = event
        /\ \A i \in 1..n : handoffs'[i] = handoffs[i]
    BY <1>1, <2>1, <2>3
  <2>5. /\ \A i \in 1..n : handoffs[i].from = IF i = 1 THEN Founder ELSE handoffs[i - 1].to
        /\ owner = IF n = 0 THEN Founder ELSE handoffs[n].to
    BY <1>1 DEF Inductive, OwnerChain
  <2>6. ASSUME NEW i \in 1..(n + 1)
        PROVE  handoffs'[i].from = IF i = 1 THEN Founder ELSE handoffs'[i - 1].to
    <3>1. CASE i = n + 1
      <4>1. n # 0 => i - 1 = n /\ n \in 1..n /\ i # 1
        BY <2>4, <3>1
      <4> QED BY <2>3, <2>4, <2>5, <3>1, <4>1
    <3>2. CASE i # n + 1
      <4>1. i \in 1..n /\ (i # 1 => i - 1 \in 1..n)
        BY <2>4, <3>2
      <4> QED BY <2>4, <2>5, <4>1
    <3> QED BY <3>1, <3>2
  <2>7. handoffs' # << >> /\ handoffs'[Len(handoffs')].to = owner'
    BY <2>3, <2>4
  <2>8. OwnerChain'
    BY <2>4, <2>6, <2>7 DEF OwnerChain
  <2> QED BY <1>1, <1>3, <2>1, <2>2, <2>4, <2>8
<1> QED BY <1>2, <1>3

LEMMA CommitStep ==
  ASSUME Inductive, NEW t \in Tabs, Commit(t)
  PROVE  Core' /\ LocksHeldByRequests'
<1>1. /\ req' = [req EXCEPT ![t] = NoRequest] /\ req \in [Tabs -> Request]
      /\ req[t].phase = "leaving" /\ ~req[t].aborted
      /\ WellFormed(req[t]) /\ req[t] \in Request
      /\ locks' = locks /\ mishaps' = mishaps
  BY DEF Commit, Inductive, TypeOK, RequestsWellFormed
<1>2. req'[t] = NoRequest /\ \A u \in Tabs \ {t} : req'[u] = req[u]
  BY <1>1
<1>3. req' \in [Tabs -> Request] /\ Legal(t, NoRequest)
  BY <1>1, NoRequestLegal
<1>4. RequestsWellFormed'
  <2>1. \A u \in Tabs : WellFormed(req'[u])
    BY <1>2, NoRequestLegal DEF Inductive, RequestsWellFormed
  <2> QED BY <2>1 DEF RequestsWellFormed, WellFormed
<1>5. RowLockedOnce' /\ GenerationsApart'
  BY <1>1, <1>3, StepApart
<1>6. LocksHeldByRequests'
  <2>1. LocksFollow(t, NoRequest)
    BY <1>1 DEF LocksFollow, Runs, Running, NoRequest
  <2> QED BY <2>1, <1>1, <1>3, LocksStep DEF MishapsGrow
<1>7. OwnerHeld'
  <2> SUFFICES ASSUME NEW u \in Tabs, req'[u].op = "handoff",
                      req'[u].phase # "reading", ~req'[u].aborted
               PROVE  owner' = UserOf[u]
    BY DEF OwnerHeld
  <2>1. u # t
    BY <1>2 DEF NoRequest
  <2>2. req'[u] = req[u] /\ owner = UserOf[u] /\ req[u].locked
    BY <1>2, <2>1 DEF Inductive, OwnerHeld, RequestsWellFormed, WellFormed
  <2>3. req[t].op # "handoff"
    BY <1>1, <2>1, <2>2 DEF Inductive, RowLockedOnce, WellFormed
  <2> QED BY <2>2, <2>3, CommitOwner
<1>8. MessagesDense' /\ AnswerFollowsQuestion'
  BY CommitRows DEF MessagesDense, AnswerFollowsQuestion, Numbered, Ordered, LastNumber
<1>9. ASSUME NEW u \in Tabs
      PROVE  Seen(u)' = messages' \/ (u # t /\ Seen(u)' = Seen(u))
  <2>1. Seen(u)' = messages' \cup req'[u].rows
    BY DEF Seen
  <2>2. CASE req'[u].rows = {}
    BY <2>1, <2>2
  <2>3. CASE req'[u].rows # {}
    <3>1. u # t /\ req'[u] = req[u]
      BY <1>2, <2>3 DEF NoRequest
    <3>2. Asking(u) /\ req[u].inChat
      BY <2>3, <3>1 DEF Inductive, RequestsWellFormed, WellFormed, Asking, NoRequest
    <3>3. ~(Asking(t) /\ req[t].inChat)
      BY <3>1, <3>2 DEF Inductive, GenerationsApart
    <3> QED BY <3>1, <3>3, <2>1, CommitQuiet DEF Seen
  <2> QED BY <2>2, <2>3
<1>10. RolesOfRows' /\ SeenInOrder'
  <2>1. \A u \in Tabs :
          /\ Numbered(Seen(u)') /\ Ordered(Seen(u)')
          /\ \A m \in Seen(u)' : m.text = "question" <=> m.role = "user"
    BY <1>9, CommitRows DEF Inductive, RolesOfRows, SeenInOrder
  <2> QED BY <2>1, Zenon DEF RolesOfRows, SeenInOrder, Numbered, Ordered, LastNumber
<1>11. GeneratingAsked'
  <2> SUFFICES ASSUME NEW u \in Tabs, Generates(req'[u])
               PROVE  Asked(u)'
    BY DEF GeneratingAsked, Generates
  <2>1. u # t /\ req'[u] = req[u] /\ Generates(req[u])
    BY <1>2 DEF NoRequest, Generates
  <2>2. Asked(u) /\ Asking(u) /\ req[u].inChat
    BY <2>1 DEF Inductive, GeneratingAsked, Generates, RequestsWellFormed,
                WellFormed, Asking
  <2>3. messages' = messages
    BY <2>1, <2>2, CommitQuiet DEF Inductive, GenerationsApart
  <2> QED BY <2>1, <2>2, <2>3 DEF Asked, Seen
<1> QED BY <1>3, <1>4, <1>5, <1>6, <1>7, <1>8, <1>10, <1>11, CommitOwner DEF Core

-----------------------------------------------------------------------------
(* The inductive invariant.                                                *)

\* Threads and mishaps keep their types, and mishaps are not forgotten.
LEMMA RestTyped ==
  ASSUME TypeOK, [Next]_vars
  PROVE  orphans' \in [Subjects -> Nat] /\ mishaps' \in Seq(Mishaps) /\ MishapsGrow
<1>1. orphans \in [Subjects -> Nat] /\ mishaps \in Seq(Mishaps)
  BY DEF TypeOK
<1>2. ASSUME NEW t \in Tabs, Start(t) \/ Continue(t)
      PROVE  orphans' = orphans /\ mishaps' = mishaps
  BY <1>2 DEF Start, Ask, ReadForHandoff, ReadForUpdate, Continue, AnswerJson,
     RefuseAttachment, Replay, StoreQuestion, StoreAnswer, FailGeneration,
     EndStream, Granted, TimedOut, LockRow, RouteTimedOut, Exit, Commit, Rollback
<1>3. ASSUME NEW t \in Tabs, Mishap(t)
      PROVE  /\ orphans' \in [Subjects -> Nat]
             /\ \E w \in Mishaps : mishaps' = Append(mishaps, w)
  <2>1. UserOf[t] \in Subjects
    BY ConstantsAssumption
  <2> QED BY <1>1, <1>3, <2>1 DEF Mishap, AskRaises, Disconnect, Abandon, GoesOn
<1>4. ASSUME NEW s \in Subjects, OrphanEnds(s)
      PROVE  orphans' \in [Subjects -> Nat] /\ mishaps' = mishaps
  BY <1>1, <1>4 DEF OrphanEnds
<1>5. CASE Crash
  <2>1. orphans' \in [Subjects -> Nat] /\ \E w \in Mishaps : mishaps' = Append(mishaps, w)
    BY <1>5 DEF Crash
  <2> QED BY <1>1, <2>1 DEF MishapsGrow
<1>6. CASE UNCHANGED vars
  BY <1>1, <1>6 DEF vars, MishapsGrow
<1> QED BY <1>1, <1>2, <1>3, <1>4, <1>5, <1>6 DEF Next, MishapsGrow

\* Every action of a client but its commit, and but a look-up that raises, is
\* a legal step of its request.
LEMMA ActionsLegal ==
  ASSUME Inductive, NEW t \in Tabs, Start(t) \/ Continue(t) \/ Mishap(t),
         ~Commit(t), ~AskRaises(t)
  PROVE  LegalAction(t)
<1>1. CASE Start(t)
  BY <1>1, AskLegal, RouteLegal DEF Start
<1>2. CASE Continue(t)
  BY <1>2, QuestionGoesOn, QuestionEnds, GrantedLegal, TimedOutLegal,
     RouteLegal, ExitLegal DEF Continue
<1>3. CASE Mishap(t)
  BY <1>3, QuestionEnds, DisconnectLegal DEF Mishap
<1> QED BY <1>1, <1>2, <1>3

\* Steps that touch neither the chat nor a request.
LEMMA IdleStep ==
  ASSUME Inductive, UNCHANGED <<chat, req>>
  PROVE  Core'
<1>1. UNCHANGED <<messages, owner, handoffs, req>>
  BY DEF chat
<1>2. \A t \in Tabs : Seen(t)' = Seen(t)
  BY <1>1 DEF Seen
<1>3. RolesOfRows' /\ SeenInOrder'
  BY <1>2 DEF Inductive, RolesOfRows, SeenInOrder
<1>4. GeneratingAsked'
  BY <1>1, <1>2 DEF Inductive, GeneratingAsked, Asked
<1>5. OwnerChain' /\ MessagesDense' /\ AnswerFollowsQuestion'
  BY <1>1 DEF Inductive, OwnerChain, MessagesDense, AnswerFollowsQuestion
<1>6. req' \in [Tabs -> Request] /\ RowLockedOnce' /\ OwnerHeld' /\ GenerationsApart'
  BY <1>1 DEF Inductive, TypeOK, RowLockedOnce, OwnerHeld, GenerationsApart,
              Running, Asking
<1>7. RequestsWellFormed'
  BY <1>1 DEF Inductive, RequestsWellFormed
<1> QED BY <1>3, <1>4, <1>5, <1>6, <1>7 DEF Core

\* A restart leaves the committed rows.
LEMMA CrashStep ==
  ASSUME Inductive, Crash
  PROVE  Core' /\ LocksHeldByRequests'
<1>1. /\ UNCHANGED <<messages, owner, handoffs>> /\ locks' = {}
      /\ req' = [t \in Tabs |-> NoRequest]
  BY DEF Crash, chat
<1>2. req' \in [Tabs -> Request] /\ \A t \in Tabs : req'[t] = NoRequest
  BY <1>1, NoRequestLegal
<1>3. /\ NoRequest.op = "ask" /\ NoRequest.phase = "idle" /\ NoRequest.rows = {}
      /\ ~NoRequest.locked
  BY DEF NoRequest
<1>4. \A t \in Tabs : ~Running(t)' /\ ~Asking(t)'
  BY <1>2, <1>3 DEF Running, Asking
<1>5. RequestsWellFormed' /\ RowLockedOnce' /\ OwnerHeld' /\ GeneratingAsked'
  <2>1. \A t \in Tabs : WellFormed(req'[t])
    BY <1>2, NoRequestLegal
  <2> QED BY <2>1, <1>2, <1>3
          DEF RequestsWellFormed, WellFormed, RowLockedOnce, OwnerHeld, GeneratingAsked
<1>6. OwnerChain' /\ MessagesDense' /\ AnswerFollowsQuestion'
  BY <1>1 DEF Inductive, OwnerChain, MessagesDense, AnswerFollowsQuestion
<1>7. RolesOfRows' /\ SeenInOrder'
  <2>1. \A t \in Tabs : Seen(t)' = messages /\ messages \subseteq Seen(t)
    BY <1>1, <1>2, <1>3 DEF Seen
  <2>2. \A t \in Tabs :
          /\ Numbered(Seen(t)') /\ Ordered(Seen(t)')
          /\ \A m \in Seen(t)' : m.text = "question" <=> m.role = "user"
    BY <2>1 DEF Inductive, RolesOfRows, MessagesDense, AnswerFollowsQuestion
  <2> QED BY <2>2, Zenon DEF RolesOfRows, SeenInOrder, Numbered, Ordered, LastNumber
<1>8. GenerationsApart'
  BY <1>4 DEF GenerationsApart
<1>9. LocksHeldByRequests'
  BY <1>1, <1>4 DEF LocksHeldByRequests
<1> QED BY <1>2, <1>5, <1>6, <1>7, <1>8, <1>9 DEF Core

LEMMA InitInductive == Init => Inductive
<1> SUFFICES ASSUME Init PROVE Inductive
  OBVIOUS
<1>1. /\ locks = {} /\ messages = {} /\ owner = Founder /\ handoffs = << >>
      /\ orphans = [s \in Subjects |-> 0] /\ mishaps = << >>
      /\ req = [t \in Tabs |-> NoRequest]
  BY DEF Init
<1>2. req \in [Tabs -> Request] /\ \A t \in Tabs : req[t] = NoRequest
  BY <1>1, NoRequestLegal
<1>3. /\ NoRequest.op = "ask" /\ NoRequest.phase = "idle" /\ NoRequest.rows = {}
      /\ ~NoRequest.locked
  BY DEF NoRequest
<1>4. TypeOK
  BY <1>1, <1>2, ConstantsAssumption DEF TypeOK
<1>5. \A t \in Tabs : ~Running(t) /\ ~Asking(t) /\ Seen(t) = {}
  BY <1>1, <1>2, <1>3 DEF Running, Asking, Seen
<1>6. RequestsWellFormed /\ RowLockedOnce /\ OwnerHeld /\ GeneratingAsked
  BY <1>2, <1>3, NoRequestLegal
     DEF RequestsWellFormed, RowLockedOnce, OwnerHeld, GeneratingAsked
<1>7. Numbered({}) /\ Ordered({})
  BY EmptyRows
<1>8. /\ OwnerChain /\ MessagesDense /\ AnswerFollowsQuestion
      /\ RolesOfRows /\ SeenInOrder
  <2>1. OwnerChain
    BY <1>1 DEF OwnerChain
  <2>2. MessagesDense /\ AnswerFollowsQuestion
    BY <1>1, <1>7, Zenon DEF MessagesDense, AnswerFollowsQuestion
  <2>3. RolesOfRows /\ SeenInOrder
    BY <1>5, <1>7, Zenon DEF RolesOfRows, SeenInOrder
  <2> QED BY <2>1, <2>2, <2>3
<1>9. GenerationsApart /\ LocksHeldByRequests
  BY <1>1, <1>5 DEF GenerationsApart, LocksHeldByRequests
<1> QED BY <1>4, <1>6, <1>8, <1>9 DEF Inductive

LEMMA NextInductive == Inductive /\ [Next]_vars => Inductive'
<1> SUFFICES ASSUME Inductive, [Next]_vars PROVE Inductive'
  OBVIOUS
<1>1. orphans' \in [Subjects -> Nat] /\ mishaps' \in Seq(Mishaps) /\ MishapsGrow
  BY RestTyped DEF Inductive
<1> SUFFICES /\ Core' /\ LocksHeldByRequests'
             /\ locks' \subseteq Subjects /\ messages' \subseteq Message
             /\ owner' \in Subjects
             /\ handoffs' \in Seq([from : Subjects, to : Subjects])
  BY <1>1 DEF Core, Inductive, TypeOK
<1>2. TypeOK /\ \A t \in Tabs : UserOf[t] \in Subjects
  BY ConstantsAssumption DEF Inductive
<1>3. ASSUME UNCHANGED chat
      PROVE  /\ messages' \subseteq Message /\ owner' \in Subjects
             /\ handoffs' \in Seq([from : Subjects, to : Subjects])
  BY <1>2, <1>3 DEF TypeOK, chat
<1>4. ASSUME NEW t \in Tabs, LegalAction(t)
      PROVE  /\ Core' /\ LocksHeldByRequests' /\ locks' \subseteq Subjects
             /\ UNCHANGED chat
  <2>1. PICK r : Becomes(t, r) /\ Legal(t, r) /\ LocksFollow(t, r)
    BY <1>4 DEF LegalAction
  <2>2. req' = [req EXCEPT ![t] = r] /\ UNCHANGED chat
    BY <2>1 DEF Becomes
  <2>3. locks' \subseteq Subjects
    BY <2>1, <1>2 DEF LocksFollow, TypeOK
  <2> QED BY <2>1, <2>2, <2>3, <1>1, LegalStep, LocksStep
<1>5. ASSUME NEW t \in Tabs, AskRaises(t)
      PROVE  /\ Core' /\ LocksHeldByRequests' /\ locks' \subseteq Subjects
             /\ UNCHANGED chat
  <2>1. /\ locks' = locks \cup {UserOf[t]} /\ UNCHANGED <<chat, req>>
        /\ mishaps' = Append(mishaps, "db_error")
    BY <1>5 DEF AskRaises
  <2>2. \E i \in 1..Len(mishaps') : mishaps'[i] = "db_error"
    <3>1. Len(mishaps) \in Nat /\ "db_error" \in Mishaps
      BY <1>2, <1>5 DEF TypeOK, AskRaises
    <3>2. Len(mishaps') = Len(mishaps) + 1 /\ mishaps'[Len(mishaps) + 1] = "db_error"
      BY <1>2, <2>1, <3>1 DEF TypeOK
    <3> QED BY <3>1, <3>2
  <2>3. LocksHeldByRequests'
    BY <2>1, <2>2 DEF LocksHeldByRequests, Inductive, Running
  <2>4. locks' \subseteq Subjects
    BY <1>2, <2>1 DEF TypeOK
  <2> QED BY <2>1, <2>3, <2>4, IdleStep
<1>6. ASSUME NEW t \in Tabs, Commit(t)
      PROVE  /\ Core' /\ LocksHeldByRequests' /\ locks' \subseteq Subjects
             /\ messages' \subseteq Message /\ owner' \in Subjects
             /\ handoffs' \in Seq([from : Subjects, to : Subjects])
  <2>1. locks' \subseteq Subjects
    BY <1>2, <1>6 DEF Commit, TypeOK
  <2> QED BY <2>1, <1>6, CommitStep, CommitRows, CommitOwner
<1>7. CASE Crash
  <2>1. locks' \subseteq Subjects /\ UNCHANGED chat
    BY <1>7 DEF Crash
  <2> QED BY <2>1, <1>3, <1>7, CrashStep
<1>8. ASSUME UNCHANGED <<chat, req, locks, mishaps>>
      PROVE  /\ Core' /\ LocksHeldByRequests' /\ locks' \subseteq Subjects
             /\ UNCHANGED chat
  BY <1>8, <1>2, IdleStep DEF LocksHeldByRequests, Running, Inductive, TypeOK
<1>9. ASSUME NEW s \in Subjects, OrphanEnds(s)
      PROVE  UNCHANGED <<chat, req, locks, mishaps>>
  BY <1>9 DEF OrphanEnds
<1>10. UNCHANGED vars => UNCHANGED <<chat, req, locks, mishaps>>
  BY DEF vars, chat
<1>11. ASSUME NEW t \in Tabs, Start(t) \/ Continue(t) \/ Mishap(t)
       PROVE  LegalAction(t) \/ AskRaises(t) \/ Commit(t)
  BY <1>11, ActionsLegal
<1> QED BY <1>3, <1>4, <1>5, <1>6, <1>7, <1>8, <1>9, <1>10, <1>11 DEF Next

\* The conjuncts of Inductive hold in every reachable state.
THEOREM InvariantHolds == Spec => []Inductive
<1> QED BY InitInductive, NextInductive, PTL DEF Spec

\* Every variable keeps its type, whatever the interleaving.
THEOREM TypeCorrect == Spec => []TypeOK
<1>1. Inductive => TypeOK
  BY DEF Inductive
<1> QED BY <1>1, InvariantHolds, PTL

\* Two generations of one subject that have their client never overlap, and
\* one question at a time is asked in the chat.
THEOREM NoOverlap == Spec => []GenerationsApart
<1>1. Inductive => GenerationsApart
  BY DEF Inductive
<1> QED BY <1>1, InvariantHolds, PTL

\* The messages of the chat are numbered 1, 2, ... and each answer comes after
\* its question, through retries, disconnects, timeouts and rollbacks.
THEOREM MessagesInOrder == Spec => []AnswersInOrder
<1>1. Inductive => AnswersInOrder
  BY DEF Inductive, AnswersInOrder
<1> QED BY <1>1, InvariantHolds, PTL

\* Each handoff is made by the one who had received the chat.
THEOREM ChainOfOwners == Spec => []OwnerChain
<1>1. Inductive => OwnerChain
  BY DEF Inductive
<1> QED BY <1>1, InvariantHolds, PTL

\* Whoever runs has the lock, and a taken lock belongs to somebody who runs as
\* long as no look-up has raised.
THEOREM LocksFollowRequests == Spec => []LocksHeldByRequests
<1>1. Inductive => LocksHeldByRequests
  BY DEF Inductive
<1> QED BY <1>1, InvariantHolds, PTL
=============================================================================
