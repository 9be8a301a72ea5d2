--------------------------- MODULE MCChatAssistant ---------------------------
(***************************************************************************)
(* A small chat for TLC: two clients of one person and one of another.     *)
(***************************************************************************)
EXTENDS ChatAssistant, TLC

CONSTANTS ann, bob, ann1, ann2, bob1, key

People == {ann, bob}
Clients == {ann1, ann2, bob1}
LoggedIn == ann1 :> ann @@ ann2 :> ann @@ bob1 :> bob

\* Each may hand the chat to the other.
Anyone == [s \in People |-> People]

\* Ann asks in both windows and may hand the chat over in both; Bob asks, and
\* renames the chat.
Habits == ann1 :> {"ask", "handoff"} @@ ann2 :> {"ask", "handoff"}
          @@ bob1 :> {"ask", "update"}

\* Ann's clients send a key that a retry repeats; Bob's sends none.
KeyPerClient == ann1 :> {key} @@ ann2 :> {key} @@ bob1 :> {NoKey}

\* The questions of the chat window, and a question outside any chat that is
\* answered as JSON.
ChatOrJson == {[inChat |-> TRUE, streams |-> TRUE], [inChat |-> FALSE, streams |-> FALSE]}
AllWays == [inChat : BOOLEAN, streams : BOOLEAN]
===============================================================================
