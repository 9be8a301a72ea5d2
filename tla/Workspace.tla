------------------------------ MODULE Workspace ------------------------------
(***************************************************************************)
(* The React page of one tab: AppRuntime with its state and the async      *)
(* functions its buttons and effects start.  A function runs from one      *)
(* await to the next; any number of them may be under way, each with what  *)
(* it captured when it began.  The server takes a request when it is sent  *)
(* and its reply may travel for as long as it likes, or be lost.  Cookies  *)
(* and sessions are those of SignIn; an answer is in its chat once the     *)
(* transaction of the stream has committed, which is after its last event. *)
(***************************************************************************)
EXTENDS SignIn, FiniteSets

CONSTANTS
  Chats, Cases,
  MaxTasks      \* bound of the model on the functions that start

VARIABLES
  page,         \* the state hooks of AppRuntime, and the path
  tasks,        \* number -> the function under way
  started,      \* functions started
  open,         \* answers whose transaction has not ended
  stored        \* answers that are in their chats

pageVars == <<page, tasks, started, open, stored>>
vars == <<signInVars, pageVars>>
-----------------------------------------------------------------------------
(* The functions as the requests they await, in their order. *)

Restoring(demo) == <<IF demo THEN "demoMe" ELSE "me", "cases", "chats">>

Asking(chat, case) ==
  <<"ask">> \o (IF chat = None THEN <<>> ELSE <<"loadChat", "chats">>)
            \o (IF case = None THEN <<>> ELSE <<"postCase", "timeline">>)

Program(kind, demo, chat, case) ==
  CASE kind = "restore"  -> Restoring(demo)
    [] kind = "login"    -> <<"localLogin", "cases", "chats">>
    [] kind = "demo"     -> <<"demoSession", "demoMe", "cases", "chats">>
    [] kind = "signOut"  -> <<IF demo THEN "endDemo" ELSE "endLocal">>
    [] kind = "ask"      -> Asking(chat, case)
    [] kind = "select"   -> <<"loadChat">>
    [] kind = "newChat"  -> <<"createChat", "chats">>
    [] kind = "edit"     -> <<"editChat", "chats">>
    [] kind = "remove"   -> <<"removeFile", "loadChat">>
    [] kind = "upload"   -> <<"upload", "loadChat", "chats", "loadChat">>
    [] kind = "openCase" -> <<"timeline">>
    [] kind = "newCase"  -> <<"createCase", "cases", "timeline">>
    [] kind = "caseStep" -> <<"postCase", "timeline", "cases">>

\* What the server says to a request sent with these cookies: to whom it
\* speaks, and which answers the chat has.
Reply(request, arg, cookies) ==
  [request |-> request, answers |-> stored,
   of |-> CASE request \in {"localLogin", "demoSession"} -> arg
            [] request = "demoMe" -> cookies.demo
            [] OTHER -> Subject(cookies),
   token |-> IF request = "localLogin" THEN NewToken ELSE cookies.local]

Accepted(reply) == reply.request \in {"endLocal", "endDemo"} \/ reply.of # None

\* requestJson reads a body in every reply; the removal of a file has none,
\* so that removeAttachment fails after the file was removed.
Understood(reply) == Accepted(reply) /\ reply.request # "removeFile"

\* Cookies a reply brings with it.
Kept(reply) ==
  CASE reply.request = "localLogin"  -> [jar EXCEPT !.local = reply.token]
    [] reply.request = "endLocal"    -> [jar EXCEPT !.local = None]
    [] reply.request = "demoSession" -> [jar EXCEPT !.demo = reply.of]
    [] reply.request = "endDemo"     -> [jar EXCEPT !.demo = None]
    [] OTHER -> jar

\* The server at request, for function n.
Serves(n, request, arg) ==
  /\ sessions' = CASE request = "localLogin" -> LoggedIn(arg)
                   [] request = "endLocal" -> Revoked(jar.local)
                   [] OTHER -> Live(sessions)
  /\ logins' = CASE request = "localLogin" -> RecordLogin(arg)
                 [] request = "endLocal" -> RecordEnd(jar.local)
                 [] OTHER -> logins
  /\ open' = IF request = "ask" /\ Subject(jar) # None THEN open \cup {n} ELSE open
  /\ UNCHANGED <<now, keycloakVars, stored>>
-----------------------------------------------------------------------------
Loading ==
  [path |-> "/", me |-> None, signedIn |-> FALSE, demo |-> FALSE, checked |-> FALSE, busy |-> TRUE,
   restored |-> FALSE, asking |-> None, chat |-> None, seen |-> {}, turns |-> {}, timeline |-> None]

Public == page.checked /\ (~page.signedIn \/ page.me = None \/ page.path = "/")
Inside == page.checked /\ page.signedIn /\ page.me # None /\ page.path # "/"

\* Function n starts with the page p, which is what it made of the page
\* before its first await; the functions in others are still under way.
Starts(p, kind, arg, chat, case, others) ==
  LET todo == Program(kind, p.demo \/ arg \in Identities, chat, case)
      n    == started + 1
  IN /\ started < MaxTasks /\ started' = n
     /\ kind = "login" => Len(logins) < MaxLogins
     /\ page' = [p EXCEPT !.asking = IF kind = "ask" THEN n ELSE @]
     /\ tasks' = [i \in others \cup {n} |->
                    IF i = n THEN [kind |-> kind, arg |-> arg, chat |-> chat, case |-> case,
                                   todo |-> todo, reply |-> Reply(Head(todo), arg, jar)]
                    ELSE tasks[i]]
     /\ Serves(n, Head(todo), arg)
     /\ UNCHANGED jar

Begins(p, kind, arg, chat, case) == Starts(p, kind, arg, chat, case, DOMAIN tasks)

Busy(p) == [p EXCEPT !.busy = TRUE]

StartLocalLogin(a) == Public /\ Begins(Busy(page), "login", a, None, None)
StartDemo(i) ==
  Public /\ Begins([Busy(page) EXCEPT !.path = "app"], "demo", i, None, None)

\* The buttons of the shell; nothing waits for what is under way.
ReturnHome == Inside /\ Begins(page, "signOut", None, None, None)
SelectChat(c) == Inside /\ Begins([page EXCEPT !.turns = {}], "select", None, c, None)
CreateNewChat(c) == Inside /\ Begins([Busy(page) EXCEPT !.turns = {}], "newChat", None, c, None)
ChangeChat(kind) == Inside /\ page.chat # None /\ Begins(page, kind, None, page.chat, None)
UploadAttachment == ~page.busy /\ ChangeChat("upload")
SelectCase(k) == Inside /\ Begins(page, "openCase", None, None, k)
CreateCase(k) == Inside /\ Begins(Busy(page), "newCase", None, None, k)
WorkOnCase == Inside /\ page.timeline # None /\ Begins(page, "caseStep", None, None, page.timeline)

MutantMayAsk == Inside /\ ~page.busy
MayAsk == Inside /\ ~page.busy /\ page.asking = None

SubmitQuestion == MayAsk /\ Begins(Busy(page), "ask", None, page.chat, page.timeline)

\* The effect of AssistantPage: after every render that shows a chat other
\* than the one of the path it asks for that one, again if need be.
FollowPath ==
  /\ Inside /\ page.path \in Chats /\ page.chat # page.path
  /\ Begins([page EXCEPT !.turns = {}], "select", None, page.path, None)

\* Links, and the back and forward buttons.
Navigate(path) ==
  /\ page.checked /\ path # page.path
  /\ page' = [page EXCEPT !.path = path]
  /\ UNCHANGED <<signInVars, tasks, started, open, stored>>
-----------------------------------------------------------------------------
ShowsChat(p, t) == [p EXCEPT !.chat = t.chat, !.seen = t.reply.answers]

\* What the page does with the reply n has waited for.
Arrives(p, n, t) ==
  LET r == t.reply
  IN CASE r.request = "me" -> [p EXCEPT !.signedIn = TRUE, !.me = r.of]
       [] r.request = "demoMe" ->
            IF t.kind = "demo" THEN [p EXCEPT !.me = r.of]
            ELSE [p EXCEPT !.signedIn = TRUE, !.me = r.of, !.demo = TRUE]
       [] r.request = "localLogin" -> [p EXCEPT !.signedIn = TRUE, !.me = r.of, !.demo = FALSE]
       [] r.request \in {"loadChat", "createChat", "editChat"} ->
            IF t.kind \in {"select", "newChat"} THEN [ShowsChat(p, t) EXCEPT !.path = t.chat]
            ELSE ShowsChat(p, t)
       [] r.request = "ask" /\ t.chat = None -> [p EXCEPT !.turns = @ \cup {n}]
       [] r.request = "timeline" -> [p EXCEPT !.timeline = t.case]
       [] OTHER -> p

\* What it does instead when the request fails: an answer whose chat cannot
\* be read again is shown as a turn of its own.
Missed(p, n, t) ==
  CASE t.kind = "ask" /\ t.reply.request = "loadChat" -> [p EXCEPT !.turns = @ \cup {n}]
    [] t.kind = "restore" /\ t.arg = None /\ ~Accepted(t.reply) ->
         [p EXCEPT !.signedIn = FALSE]
    [] t.kind = "login" -> [p EXCEPT !.signedIn = FALSE, !.me = None]
    [] OTHER -> p

\* A demo session that cannot be restored is followed by the ordinary one;
\* failed refreshes are caught, any other failure ends the function.
AfterFailure(t) ==
  IF t.reply.request = "chats" THEN Tail(t.todo)
  ELSE IF t.kind = "restore" /\ t.arg # None THEN Restoring(FALSE)
  ELSE IF t.kind = "ask" /\ t.reply.request = "loadChat" THEN SubSeq(t.todo, 3, Len(t.todo))
  ELSE <<>>

\* An answer that was refused or needs review is not posted to the case; the
\* poll of an upload goes on while its file is not ready.
AfterSuccess(t) ==
  {Tail(t.todo)}
    \cup (IF t.reply.request = "ask" /\ t.case # None
          THEN {SubSeq(t.todo, 2, Len(t.todo) - 2)} ELSE {})
    \cup (IF t.kind = "upload" THEN {s \in {<<>>, t.todo} : Len(t.todo) <= 2 /\ Len(s) # 2} ELSE {})

Cleared(p) ==
  [Loading EXCEPT !.checked = TRUE, !.busy = p.busy, !.restored = p.restored, !.asking = p.asking]

Answered(p) == [p EXCEPT !.busy = FALSE, !.asking = None]

\* The end of a function, after its last request succeeded (ok) or failed.
\* When a demo session was restored, busy is left as it is.
Finally(p, t, ok) ==
  CASE t.kind = "restore" -> [p EXCEPT !.checked = TRUE, !.restored = t.arg # None, !.busy = t.arg # None /\ @]
    [] t.kind = "login" -> [p EXCEPT !.busy = FALSE, !.path = IF ok THEN "app" ELSE @]
    [] t.kind = "demo" ->
         IF ok THEN [p EXCEPT !.busy = FALSE, !.demo = TRUE, !.signedIn = TRUE]
         ELSE [p EXCEPT !.busy = FALSE]
    [] t.kind = "signOut" -> Cleared(p)
    [] t.kind = "ask" -> Answered(p)
    [] t.kind \in {"newChat", "newCase"} -> [p EXCEPT !.busy = FALSE]
    [] OTHER -> p

\* Function n goes on to the requests that are left, or ends.
GoesOn(n, p, ok, rest) ==
  LET t   == tasks[n]
      arg == IF t.kind = "restore" /\ "me" \in Range(rest) THEN None ELSE t.arg
  IN IF rest = <<>>
     THEN /\ page' = Finally(p, t, ok \/ t.reply.request = "chats")
          /\ tasks' = Restrict(tasks, DOMAIN tasks \ {n})
          /\ UNCHANGED <<sessions, logins, open, now, keycloakVars, stored>>
     ELSE /\ page' = p
          /\ tasks' = [tasks EXCEPT ![n].todo = rest, ![n].arg = arg,
                                    ![n].reply = Reply(Head(rest), arg, jar')]
          /\ Serves(n, Head(rest), arg)

Deliver(n) ==
  LET t == tasks[n]
  IN /\ Understood(t.reply)
     /\ jar' = Kept(t.reply)
     /\ \E rest \in AfterSuccess(t) : GoesOn(n, Arrives(page, n, t), TRUE, rest)
     /\ UNCHANGED started

\* A refusal, an error, a lost connection, or the Stop button.
Fail(n) ==
  LET t == tasks[n]
  IN /\ UNCHANGED <<jar, started>>
     /\ GoesOn(n, Missed(page, n, t), FALSE, AfterFailure(t))

\* The transaction of a stream ends, after its last event or long before.
Commit(n) ==
  /\ n \in open
  /\ open' = open \ {n} /\ stored' \in {stored, stored \cup {n}}
  /\ UNCHANGED <<signInVars, page, tasks, started>>

\* The tab is loaded again: what was under way is gone, and the page asks
\* for the session, first for that of the demo where there is one.
Reload ==
  \E i \in IF Identities = {} THEN {None} ELSE Identities :
    Starts([Loading EXCEPT !.path = page.path], "restore", i, None, None, {})

\* The tab is being loaded, or an account has been signed in in it.
Init ==
  /\ \/ SignInInit /\ page = Loading
     \/ \E a \in Accounts :
          /\ SignedInAs(a)
          /\ page = [Loading EXCEPT !.path = "app", !.me = a, !.signedIn = TRUE,
                                    !.checked = TRUE, !.busy = FALSE]
  /\ tasks = <<>> /\ started = 0 /\ open = {} /\ stored = {}

SignsIn == (\E a \in Accounts : StartLocalLogin(a)) \/ \E i \in Identities : StartDemo(i)

Chatting ==
  \/ \E c \in Chats : SelectChat(c) \/ CreateNewChat(c)
  \/ UploadAttachment \/ FollowPath \/ SubmitQuestion
  \/ \E kind \in {"edit", "remove"} : ChangeChat(kind)

OnCases == WorkOnCase \/ \E k \in Cases : SelectCase(k) \/ CreateCase(k)

Replies == \E n \in DOMAIN tasks : Deliver(n) \/ Fail(n)

Next ==
  \/ SignsIn \/ ReturnHome \/ Chatting \/ OnCases \/ Reload \/ Replies
  \/ \E path \in {"/", "app"} \cup Chats : Navigate(path)
  \/ \E n \in open : Commit(n)
  \/ SignInNext /\ UNCHANGED pageVars

Spec == Init /\ [][Next]_vars
-----------------------------------------------------------------------------
(* Properties. *)

\* One question at a time (activeRequest): although other functions reset
\* busy while a stream runs, no second question starts before the first has
\* ended, and the reference always names the one that runs, so that Stop
\* stops it and the page does not stay locked.
OneQuestion ==
  LET asks == {n \in DOMAIN tasks : tasks[n].kind = "ask"}
  IN asks = IF page.asking = None THEN {} ELSE {page.asking}

\* App.tsx of the catch in submitQuestion: "The validated answer remains
\* visible even if the post-stream refresh is temporarily unavailable."
\* An answer that was accepted is on the page when its chat was read again.
AnswerRemainsVisible ==
  [][\A n \in DOMAIN tasks \cap DOMAIN tasks' :
       tasks[n].kind = "ask" /\ tasks[n].reply.request = "loadChat"
         /\ tasks'[n].todo # tasks[n].todo => n \in page'.seen \cup page'.turns]_vars
=============================================================================
