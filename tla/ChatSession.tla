---------------------------- MODULE ChatSession -----------------------------
(***************************************************************************)
(* Chat requests at the Python agent and what they keep in PostgreSQL: the  *)
(* session, the question, and the answer, three transactions with retrieval *)
(* and the language model between them.  Requests of one session may run at *)
(* the same time: the endpoint is a plain function in a thread pool, and a  *)
(* client that gave up may have asked again.  Retrieval itself is modelled  *)
(* in Answers; here it finds a context or it does not.                      *)
(***************************************************************************)
EXTENDS Integers, Sequences, FiniteSets, Selection

CONSTANTS
  Request,    \* requests, whoever sends them
  Session,
  None,       \* no value
  Public,     \* requests with retrieval_mode "project_plus_public"
  Enabled,    \* ENABLE_PUBLIC_RETRIEVAL
  History     \* messages read back for a prompt (6 in the code)

ASSUME ChatAssumption ==
  /\ Public \subseteq Request
  /\ Enabled \in BOOLEAN
  /\ History \in Nat \ {0}
  /\ None \notin Session

VARIABLES
  sessions,   \* rows of agent_sessions
  messages,   \* rows of conversations, in the order of created_at
  pc,         \* where each request stands
  session,    \* the session it names
  prompt,     \* past messages it gave to the language model
  answer,     \* what it answers
  shared      \* history: sessions that two requests have used at the same time

tables == <<sessions, messages>>
local  == <<session, prompt, answer>>
vars   == <<tables, pc, local, shared>>

Answer  == {"limitation", "generated"}
Message == [session : Session, request : Request, text : Answer \cup {"question"}]

\* At work on what the database keeps; at "reply" only the response is missing.
Working == {"session", "create", "question", "search", "history", "model", "save"}

TypeOK ==
  /\ sessions \in SUBSET Session
  /\ messages \in Seq(Message)
  /\ pc \in [Request -> {"new", "reply", "replied", "failed", "refused"} \cup Working]
  /\ session \in [Request -> Session \cup {None}]
  /\ prompt \in [Request -> Seq(Message)]
  /\ answer \in [Request -> Answer \cup {None}]
  /\ shared \in SUBSET Session

Init ==
  /\ sessions = {}
  /\ messages = <<>>
  /\ pc = [r \in Request |-> "new"]
  /\ session = [r \in Request |-> None]
  /\ prompt = [r \in Request |-> <<>>]
  /\ answer = [r \in Request |-> None]
  /\ shared = {}

Go(r, from, to) == pc[r] = from /\ pc' = [pc EXCEPT ![r] = to]

Active(s) == {r \in Request : session[r] = s /\ pc[r] \in Working}

Of(s, log) == Select(log, {m \in Message : m.session = s})

\* The last n messages, or as many as there are.
LastOf(n, log) == SubSeq(log, IF Len(log) > n THEN Len(log) - n + 1 ELSE 1, Len(log))

Says(r, t) == [session |-> session[r], request |-> r, text |-> t]

-----------------------------------------------------------------------------
\* The mode is not enabled: the request leaves no trace.
Refuse(r) ==
  /\ r \in Public /\ ~Enabled
  /\ Go(r, "new", "refused")
  /\ UNCHANGED <<tables, local, shared>>

Begin(r, s) ==
  /\ r \in Public => Enabled
  /\ Go(r, "new", "session")
  /\ session' = [session EXCEPT ![r] = s]
  /\ shared' = IF Active(s) = {} THEN shared ELSE shared \cup {s}
  /\ UNCHANGED <<tables, prompt, answer>>

FindSession(r) ==
  /\ Go(r, "session", IF session[r] \in sessions THEN "question" ELSE "create")
  /\ UNCHANGED <<tables, local, shared>>

\* session_id is unique, so the second of two INSERTs fails, and its request.
CreateSession(r) ==
  /\ Go(r, "create", IF session[r] \in sessions THEN "failed" ELSE "question")
  /\ sessions' = sessions \cup {session[r]}
  /\ UNCHANGED <<messages, local, shared>>

SaveQuestion(r) ==
  /\ Go(r, "question", "search")
  /\ messages' = Append(messages, Says(r, "question"))
  /\ UNCHANGED <<sessions, local, shared>>

SearchFinds(r) ==
  /\ Go(r, "search", "history")
  /\ UNCHANGED <<tables, local, shared>>

\* Faulty variant: the limitation is returned without being saved.
SearchRepliesAtOnce(r) ==
  /\ Go(r, "search", "replied")
  /\ answer' = [answer EXCEPT ![r] = "limitation"]
  /\ UNCHANGED <<tables, session, prompt, shared>>

\* Without a context the model is not asked.
SearchFindsNothing(r) ==
  /\ Go(r, "search", "save")
  /\ answer' = [answer EXCEPT ![r] = "limitation"]
  /\ UNCHANGED <<tables, session, prompt, shared>>

\* Faulty variant: the question is left among the past messages.
ReadWholeHistory(r) ==
  /\ Go(r, "history", "model")
  /\ prompt' = [prompt EXCEPT ![r] = LastOf(History, Of(session[r], messages))]
  /\ UNCHANGED <<tables, session, answer, shared>>

\* The newest messages but the last, which is taken for the request's own.
ReadHistory(r) ==
  LET newest == LastOf(History, Of(session[r], messages))
  IN
  /\ Go(r, "history", "model")
  /\ prompt' = [prompt EXCEPT ![r] = SubSeq(newest, 1, Len(newest) - 1)]
  /\ UNCHANGED <<tables, session, answer, shared>>

Generate(r) ==
  /\ Go(r, "model", "save")
  /\ answer' = [answer EXCEPT ![r] = "generated"]
  /\ UNCHANGED <<tables, session, prompt, shared>>

\* The commit; nobody has been told of it yet.
SaveAnswer(r) ==
  /\ Go(r, "save", "reply")
  /\ messages' = Append(messages, Says(r, answer[r]))
  /\ UNCHANGED <<sessions, local, shared>>

\* The service returns and the endpoint answers.
Reply(r) ==
  /\ Go(r, "reply", "replied")
  /\ UNCHANGED <<tables, local, shared>>

\* The database, its pool of connections, the embedder or the model fails, the
\* acknowledgement of a COMMIT is lost, or the process ends: what was committed
\* before stays, the answer too when only the reply was missing.
Fail(r) ==
  /\ pc[r] \in Working \cup {"reply"}
  /\ pc' = [pc EXCEPT ![r] = "failed"]
  /\ UNCHANGED <<tables, local, shared>>

Step(r) ==
  \/ FindSession(r) \/ CreateSession(r) \/ SaveQuestion(r)
  \/ SearchFinds(r) \/ SearchFindsNothing(r)
  \/ ReadHistory(r) \/ Generate(r) \/ SaveAnswer(r) \/ Reply(r) \/ Fail(r)

Next == \E r \in Request : Step(r) \/ Refuse(r) \/ \E s \in Session : Begin(r, s)

Spec == Init /\ [][Next]_vars

-----------------------------------------------------------------------------
Mine(r, texts) == {i \in 1..Len(messages) : messages[i].request = r /\ messages[i].text \in texts}

\* What was said in the session of request r before its question.
Past(r) ==
  Of(session[r], SubSeq(messages, 1, (CHOOSE i \in Mine(r, {"question"}) : TRUE) - 1))

\* Unless requests share a session, the model is given the messages that came
\* right before the question, the newest last, and not the question itself: the
\* last message read back is the one the request saved, whatever failed before.
PromptIsPast ==
  \A r \in Request :
    pc[r] = "model" /\ session[r] \notin shared => prompt[r] = LastOf(History - 1, Past(r))

\* The promise without the exception: "Adiciona historico recente (excluindo a
\* ultima que e a mensagem atual do user)".
OwnQuestionLeftOut == \A r \in Request : pc[r] = "model" => prompt[r] = LastOf(History - 1, Past(r))

\* A request that was replied to is in the conversation with one question and,
\* after it, one answer, the one the client was sent.  An answer whose request
\* failed is as complete: the failure came between its commit and the reply, and
\* whoever asks again finds question and answer in the history.  No request that
\* is still at work has an answer there, and one that was refused, or failed
\* before its question was saved, has nothing.
RepliedIsRecorded ==
  \A r \in Request :
    /\ pc[r] = "replied" \/ Mine(r, Answer) # {} =>
         \E i, j \in 1..Len(messages) :
           /\ i < j
           /\ Mine(r, {"question"}) = {i} /\ Mine(r, Answer) = {j} /\ messages[j].text = answer[r]
    /\ pc[r] \in Working => Mine(r, Answer) = {}
    /\ pc[r] \in {"new", "refused", "session", "create", "question"} => Mine(r, Answer \cup {"question"}) = {}
=============================================================================
