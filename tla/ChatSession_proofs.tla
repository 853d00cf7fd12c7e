------------------------- MODULE ChatSession_proofs -------------------------
(***************************************************************************)
(* What the conversation of a chat request holds, for any number of         *)
(* requests and sessions, whatever fails: a reply the client received is    *)
(* recorded once, after its question, and the model is given the past of    *)
(* the session.  The argument goes request by request: what a request has   *)
(* in the conversation depends on where it stands, only its own two         *)
(* insertions change it, and those of others change its session only when   *)
(* the session is shared.                                                   *)
(***************************************************************************)
EXTENDS ChatSession, Induction, TLAPS

States == {"new", "reply", "replied", "failed", "refused"} \cup Working
Early  == {"new", "refused", "session", "create", "question"}
Asked  == {"search", "history", "model", "save"}
Said   == {"reply", "replied"}
Texts  == Answer \cup {"question"}

Types ==
  /\ messages \in Seq(Message)
  /\ pc \in [Request -> States]
  /\ session \in [Request -> Session \cup {None}]
  /\ answer \in [Request -> Answer \cup {None}]

Recorded(r) ==
  \E i, j \in 1..Len(messages) :
    /\ i < j
    /\ Mine(r, {"question"}) = {i} /\ Mine(r, Answer) = {j} /\ messages[j].text = answer[r]

\* What a request has in the conversation, by where it stands.
Stands(r) ==
  /\ pc[r] \in Working => session[r] \in Session
  /\ pc[r] \in Early => Mine(r, Texts) = {}
  /\ pc[r] \in Asked => \E i \in 1..Len(messages) : Mine(r, {"question"}) = {i}
  /\ pc[r] \in Asked => Mine(r, Answer) = {}
  /\ pc[r] = "save" => answer[r] \in Answer
  /\ pc[r] \in Said \/ Mine(r, Answer) # {} => Recorded(r)

RecordInv == Types /\ \A r \in Request : Stands(r)

-----------------------------------------------------------------------------
LEMMA MineAppend ==
  ASSUME messages \in Seq(Message), NEW m \in Message, messages' = Append(messages, m), NEW r, NEW T
  PROVE  Mine(r, T)' = Mine(r, T) \cup (IF m.request = r /\ m.text \in T THEN {Len(messages) + 1} ELSE {})
<1>1. Len(messages') = Len(messages) + 1 /\ Len(messages) \in Nat OBVIOUS
<1>2. \A i \in 1..Len(messages) : messages'[i] = messages[i] OBVIOUS
<1>3. messages'[Len(messages) + 1] = m OBVIOUS
<1>4. 1..Len(messages') = 1..Len(messages) \cup {Len(messages) + 1} BY <1>1
<1> QED BY <1>2, <1>3, <1>4 DEF Mine

\* A request keeps its standing when neither it nor its messages move.
LEMMA OthersStand ==
  ASSUME Types, NEW q, Stands(q), pc'[q] = pc[q], session'[q] = session[q], answer'[q] = answer[q],
         \/ messages' = messages
         \/ \E m \in Message : messages' = Append(messages, m) /\ m.request # q
  PROVE  Stands(q)'
<1>1. \A T : Mine(q, T)' = Mine(q, T) BY MineAppend DEF Types, Mine
<1>2. Len(messages) \in Nat /\ \A i \in 1..Len(messages) : i \in 1..Len(messages') /\ messages'[i] = messages[i]
  BY DEF Types
<1>3. Recorded(q) => Recorded(q)'
  <2>1. ASSUME NEW i \in 1..Len(messages), NEW j \in 1..Len(messages), i < j,
               Mine(q, {"question"}) = {i}, Mine(q, Answer) = {j}, messages[j].text = answer[q]
        PROVE  Recorded(q)'
    <3>1. i \in 1..Len(messages') /\ j \in 1..Len(messages') /\ messages'[j].text = answer'[q] BY <1>2, <2>1
    <3>2. Mine(q, {"question"})' = {i} /\ Mine(q, Answer)' = {j} BY <1>1, <2>1 DEF Answer
    <3> QED BY <2>1, <3>1, <3>2 DEF Recorded, Answer
  <2> QED BY <2>1 DEF Recorded
<1>4. (\E i \in 1..Len(messages) : Mine(q, {"question"}) = {i}) => \E i \in 1..Len(messages') : Mine(q, {"question"})' = {i}
  BY <1>1, <1>2
<1>5. Mine(q, Texts)' = Mine(q, Texts) /\ Mine(q, Answer)' = Mine(q, Answer) BY <1>1 DEF Texts, Answer
<1> QED BY <1>3, <1>4, <1>5 DEF Stands

\* A request that moves without a message keeps its standing when it stays in
\* its phase, or fails; a new answer is only chosen before one is saved.
LEMMA QuietStand ==
  ASSUME Types, NEW r \in Request, Stands(r), messages' = messages,
         pc'[r] \in Said => pc[r] \in Said,
         answer'[r] = answer[r] \/ pc[r] \in Early \cup Asked,
         pc'[r] \in Early => pc[r] \in Early,
         pc'[r] \in Asked => pc[r] \in Asked,
         pc'[r] \in Working => session'[r] \in Session,
         pc'[r] = "save" => answer'[r] \in Answer
  PROVE  Stands(r)'
<1>1. \A T : Mine(r, T)' = Mine(r, T) BY DEF Mine
<1>2. Mine(r, Texts)' = Mine(r, Texts) /\ Mine(r, Answer)' = Mine(r, Answer) BY <1>1 DEF Texts, Answer
<1>3. pc'[r] \in Asked => \E i \in 1..Len(messages') : Mine(r, {"question"})' = {i} BY <1>1 DEF Stands
<1>4. ASSUME pc'[r] \in Said \/ Mine(r, Answer)' # {} PROVE Recorded(r)'
  <2>1. Recorded(r) /\ pc[r] \notin Early \cup Asked
    <3>1. Mine(r, Answer) \subseteq Mine(r, Texts) BY DEF Mine, Texts
    <3> QED BY <1>2, <1>4, <3>1 DEF Stands, Said, Early, Asked
  <2>2. answer'[r] = answer[r] BY <2>1
  <2> QED BY <1>1, <1>2, <2>1, <2>2 DEF Recorded, Answer
<1> QED BY <1>2, <1>3, <1>4 DEF Stands

-----------------------------------------------------------------------------
LEMMA GoMoves ==
  ASSUME Types, NEW r \in Request, NEW a, NEW b \in States, Go(r, a, b)
  PROVE  /\ pc[r] = a /\ pc'[r] = b /\ pc' \in [Request -> States]
         /\ \A q \in Request : q # r => pc'[q] = pc[q]
  BY DEF Go, Types

\* Steps that save no message.
LEMMA QuietSteps ==
  ASSUME RecordInv, NEW r \in Request, NEW b \in States,
         pc' = [pc EXCEPT ![r] = b], messages' = messages,
         b \in Said => pc[r] \in Said,
         answer'[r] = answer[r] \/ pc[r] \in Early \cup Asked,
         b \in Early => pc[r] \in Early,
         b \in Asked => pc[r] \in Asked,
         session' \in [Request -> Session \cup {None}],
         answer' \in [Request -> Answer \cup {None}],
         \A q \in Request \ {r} : session'[q] = session[q] /\ answer'[q] = answer[q],
         b \in Working => session'[r] \in Session,
         b = "save" => answer'[r] \in Answer
  PROVE  RecordInv'
<1>1. Types' BY DEF RecordInv, Types
<1>2. pc'[r] = b /\ \A q \in Request \ {r} : pc'[q] = pc[q] BY DEF RecordInv, Types
<1>3. Stands(r)' BY <1>2, QuietStand DEF RecordInv
<1>4. \A q \in Request \ {r} : Stands(q)' BY <1>2, OthersStand DEF RecordInv
<1> QED BY <1>1, <1>3, <1>4 DEF RecordInv

\* The two insertions.
LEMMA QuestionInductive ==
  ASSUME RecordInv, NEW r \in Request, SaveQuestion(r)
  PROVE  RecordInv'
<1> DEFINE m == Says(r, "question")
<1>1. pc[r] = "question" /\ pc' = [pc EXCEPT ![r] = "search"] /\ messages' = Append(messages, m)
      /\ session' = session /\ answer' = answer
  BY DEF SaveQuestion, Go, local
<1>2. session[r] \in Session BY <1>1 DEF RecordInv, Stands, Working
<1>3. m \in Message /\ m.request = r /\ m.text = "question" BY <1>2 DEF Says, Message
<1>4. messages \in Seq(Message) /\ messages' \in Seq(Message) BY <1>1, <1>3 DEF RecordInv, Types
<1> HIDE DEF m
<1>a. "search" \in States BY DEF States, Working
<1>b. pc' \in [Request -> States] BY <1>1, <1>a DEF RecordInv, Types
<1>5. Types' BY <1>1, <1>4, <1>b DEF RecordInv, Types
<1>6. Stands(r)'
  <2>1. Mine(r, Texts) = {} BY <1>1 DEF RecordInv, Stands, Early
  <2>2. Mine(r, {"question"}) = {} /\ Mine(r, Answer) = {} BY <2>1 DEF Mine, Texts
  <2>3. Mine(r, {"question"})' = {Len(messages) + 1} BY <1>1, <1>3, <1>4, <2>2, MineAppend
  <2>4. "question" \notin Answer BY DEF Answer
  <2>5. ASSUME NEW T, m.text \notin T PROVE Mine(r, T)' = Mine(r, T)
    <3>1. Mine(r, T)' = Mine(r, T) \cup (IF m.request = r /\ m.text \in T THEN {Len(messages) + 1} ELSE {})
      BY <1>1, <1>3, <1>4, MineAppend
    <3> QED BY <2>5, <3>1
  <2>6. Mine(r, Answer)' = {} BY <1>3, <2>2, <2>4, <2>5 DEF Answer
  <2>7. Len(messages) + 1 \in 1..Len(messages') BY <1>1, <1>4
  <2>8. pc'[r] = "search" BY <1>1 DEF RecordInv, Types
  <2> QED BY <1>1, <1>2, <2>3, <2>6, <2>7, <2>8 DEF Stands, Early, Asked, Said
<1>7. \A q \in Request \ {r} : Stands(q)'
  <2> SUFFICES ASSUME NEW q \in Request \ {r} PROVE Stands(q)' OBVIOUS
  <2>1. pc'[q] = pc[q] /\ session'[q] = session[q] /\ answer'[q] = answer[q] BY <1>1 DEF RecordInv, Types
  <2>2. \E n \in Message : messages' = Append(messages, n) /\ n.request # q BY <1>1, <1>3
  <2> QED BY <2>1, <2>2, OthersStand DEF RecordInv
<1> QED BY <1>5, <1>6, <1>7 DEF RecordInv

LEMMA AnswerInductive ==
  ASSUME RecordInv, NEW r \in Request, SaveAnswer(r)
  PROVE  RecordInv'
<1> DEFINE m == Says(r, answer[r])
<1>1. pc[r] = "save" /\ pc' = [pc EXCEPT ![r] = "reply"] /\ messages' = Append(messages, m)
      /\ session' = session /\ answer' = answer
  BY DEF SaveAnswer, Go, local
<1>2. session[r] \in Session /\ answer[r] \in Answer BY <1>1 DEF RecordInv, Stands, Working
<1>3. m \in Message /\ m.request = r /\ m.text = answer[r] BY <1>2 DEF Says, Message
<1>4. messages \in Seq(Message) /\ messages' \in Seq(Message) BY <1>1, <1>3 DEF RecordInv, Types
<1> HIDE DEF m
<1>5. Types' BY <1>1, <1>4 DEF RecordInv, Types, States
<1>6. Stands(r)'
  <2>1. PICK i \in 1..Len(messages) : Mine(r, {"question"}) = {i} BY <1>1 DEF RecordInv, Stands, Asked
  <2>2. Mine(r, Answer) = {} BY <1>1 DEF RecordInv, Stands, Asked
  <2>3. answer[r] \notin {"question"} BY <1>2 DEF Answer
  <2>4. Mine(r, {"question"})' = {i} BY <1>1, <1>3, <1>4, <2>1, <2>3, MineAppend
  <2>5. \A T : m.text \in T => Mine(r, T)' = Mine(r, T) \cup {Len(messages) + 1} BY <1>1, <1>3, <1>4, MineAppend
  <2>6. Mine(r, Answer)' = {Len(messages) + 1} BY <1>2, <1>3, <2>2, <2>5 DEF Answer
  <2>7. /\ i < Len(messages) + 1 /\ i \in 1..Len(messages') /\ Len(messages) + 1 \in 1..Len(messages')
        /\ messages'[Len(messages) + 1] = m
    BY <1>1, <1>4
  <2>8. messages'[Len(messages) + 1].text = answer'[r] BY <1>1, <1>3, <2>7
  <2>9. Recorded(r)' BY <2>4, <2>6, <2>7, <2>8 DEF Recorded, Answer
  <2>10. pc'[r] = "reply" BY <1>1 DEF RecordInv, Types
  <2> QED BY <2>9, <2>10 DEF Stands, Early, Asked, Working
<1>7. \A q \in Request \ {r} : Stands(q)'
  <2> SUFFICES ASSUME NEW q \in Request \ {r} PROVE Stands(q)' OBVIOUS
  <2>1. pc'[q] = pc[q] /\ session'[q] = session[q] /\ answer'[q] = answer[q] BY <1>1 DEF RecordInv, Types
  <2>2. \E n \in Message : messages' = Append(messages, n) /\ n.request # q BY <1>1, <1>3
  <2> QED BY <2>1, <2>2, OthersStand DEF RecordInv
<1> QED BY <1>5, <1>6, <1>7 DEF RecordInv

LEMMA StepInductive ==
  ASSUME RecordInv, NEW r \in Request, Step(r)
  PROVE  RecordInv'
<1> USE DEF States, Early, Asked, Said, Working, Go, tables, local
<1>a. Types /\ Stands(r) BY DEF RecordInv
<1>1. CASE FindSession(r) BY <1>1, <1>a, QuietSteps DEF FindSession, Types, Stands
<1>2. CASE CreateSession(r) BY <1>2, <1>a, QuietSteps DEF CreateSession, Types, Stands
<1>3. CASE SaveQuestion(r) BY <1>3, QuestionInductive
<1>4. CASE SearchFinds(r) BY <1>4, <1>a, QuietSteps DEF SearchFinds, Types, Stands
<1>5. CASE SearchFindsNothing(r) BY <1>5, <1>a, QuietSteps DEF SearchFindsNothing, Types, Stands, Answer
<1>6. CASE ReadHistory(r) BY <1>6, <1>a, QuietSteps DEF ReadHistory, Types, Stands
<1>7. CASE Generate(r) BY <1>7, <1>a, QuietSteps DEF Generate, Types, Stands, Answer
<1>8. CASE SaveAnswer(r) BY <1>8, AnswerInductive
<1>9. CASE Fail(r) BY <1>9, <1>a, QuietSteps DEF Fail, Types, Stands
<1>10. CASE Reply(r) BY <1>10, <1>a, QuietSteps DEF Reply, Types, Stands
<1> QED BY <1>1, <1>2, <1>3, <1>4, <1>5, <1>6, <1>7, <1>8, <1>9, <1>10 DEF Step

LEMMA StartInductive ==
  ASSUME RecordInv, NEW r \in Request, Refuse(r) \/ \E s \in Session : Begin(r, s)
  PROVE  RecordInv'
<1> USE DEF States, Early, Asked, Said, Working, Go, tables, local
<1>a. Types /\ Stands(r) BY DEF RecordInv
<1>1. CASE Refuse(r) BY <1>1, <1>a, QuietSteps DEF Refuse, Types, Stands
<1>2. ASSUME NEW s \in Session, Begin(r, s) PROVE RecordInv'
  BY <1>2, <1>a, QuietSteps DEF Begin, Types, Stands
<1> QED BY <1>1, <1>2

LEMMA RecordInit == Init => RecordInv
<1> SUFFICES ASSUME Init PROVE RecordInv OBVIOUS
<1>1. \A r \in Request : pc[r] = "new" BY DEF Init
<1>2. \A r, T : Mine(r, T) = {} BY DEF Init, Mine
<1>3. Types BY DEF Init, Types, States
<1> QED BY <1>1, <1>2, <1>3 DEF RecordInv, Stands, Asked, Said, Working

\* A reply is in the conversation after its question, each once; an answer whose
\* request failed is as complete, and no request at work has one.
THEOREM RepliesRecorded == Spec => []RepliedIsRecorded
<1>1. Init => RecordInv
  BY RecordInit
<1>2. RecordInv /\ [Next]_vars => RecordInv'
  <2>1. CASE Next BY <2>1, StepInductive, StartInductive DEF Next
  <2>2. CASE UNCHANGED vars
    <3>1. /\ messages' = messages /\ pc' = pc /\ session' = session /\ answer' = answer
      BY <2>2 DEF vars, tables, local
    <3> QED BY <3>1 DEF RecordInv, Types, Stands, Recorded, Mine
  <2> QED BY <2>1, <2>2
<1>3. ASSUME RecordInv PROVE RepliedIsRecorded
  <2> SUFFICES ASSUME NEW r \in Request
               PROVE  /\ pc[r] = "replied" \/ Mine(r, Answer) # {} => Recorded(r)
                      /\ pc[r] \in Working => Mine(r, Answer) = {}
                      /\ pc[r] \in Early => Mine(r, Texts) = {}
    BY DEF RepliedIsRecorded, Recorded, Early, Texts
  <2>1. Stands(r) /\ Mine(r, Answer) \subseteq Mine(r, Texts)
    BY <1>3 DEF RecordInv, Mine, Texts
  <2>2. pc[r] \in Working => pc[r] \in Early \cup Asked
    BY DEF Working, Early, Asked
  <2> QED BY <2>1, <2>2 DEF Stands, Said
<1> QED BY <1>1, <1>2, <1>3, PTL DEF Spec

-----------------------------------------------------------------------------
(* The messages a request gives to the model.                               *)

LEMMA OfTyped ==
  ASSUME NEW s, NEW log \in Seq(Message)
  PROVE  Of(s, log) \in Seq(Message)
BY SelectType DEF Of

LEMMA OfAppend ==
  ASSUME NEW s, NEW log \in Seq(Message), NEW m \in Message
  PROVE  Of(s, Append(log, m)) = IF m.session = s THEN Append(Of(s, log), m) ELSE Of(s, log)
<1> DEFINE S == {x \in Message : x.session = s}
<1>1. m \in S <=> m.session = s
  OBVIOUS
<1> HIDE DEF S
<1>2. Select(Append(log, m), S) = IF m \in S THEN Append(Select(log, S), m) ELSE Select(log, S)
  BY SelectAppend
<1> QED BY <1>1, <1>2 DEF Of, S

\* The newest messages but the last are the newest of those before the last.
LEMMA LastButOne ==
  ASSUME NEW A, NEW log \in Seq(A), NEW m \in A, NEW n \in Nat \ {0}
  PROVE  LET newest == LastOf(n, Append(log, m))
         IN  SubSeq(newest, 1, Len(newest) - 1) = LastOf(n - 1, log)
<1> DEFINE L == Len(log)
           more == Append(log, m)
           from == IF L + 1 > n THEN L + 1 - n ELSE 0
           newest == SubSeq(more, from + 1, L + 1)
           k == L + 1 - from
           old == SubSeq(log, from + 1, L)
           cut == SubSeq(newest, 0 + 1, k - 1)
<1>1. L \in Nat
  OBVIOUS
<1>2. more \in Seq(A) /\ Len(more) = L + 1 /\ \A i \in 1..L : more[i] = log[i]
  OBVIOUS
<1>3. /\ from \in 0..L /\ k \in 1..(L + 1) /\ from + k = L + 1 /\ L + 1 \in Nat /\ k - 1 \in Nat
      /\ from + 1 = IF L + 1 > n THEN L + 1 - n + 1 ELSE 1
      /\ from + 1 = IF L > n - 1 THEN L - (n - 1) + 1 ELSE 1
  <2> HIDE DEF L, more
  <2> QED BY <1>1
<1>4. LastOf(n, more) = newest /\ LastOf(n - 1, log) = old
  <2>1. LastOf(n, more) = SubSeq(more, IF Len(more) > n THEN Len(more) - n + 1 ELSE 1, Len(more))
    BY DEF LastOf
  <2>2. LastOf(n - 1, log) = SubSeq(log, IF L > n - 1 THEN L - (n - 1) + 1 ELSE 1, L)
    BY DEF LastOf
  <2>3. Len(more) = L + 1
    BY <1>2
  <2> HIDE DEF L, more, from
  <2>4. (IF Len(more) > n THEN Len(more) - n + 1 ELSE 1) = from + 1
    BY <1>1, <1>3, <2>3
  <2>5. LastOf(n, more) = newest
    BY <2>1, <2>3, <2>4
  <2>6. LastOf(n - 1, log) = old
    BY <1>3, <2>2
  <2> QED BY <2>5, <2>6
<1>5. newest \in Seq(A) /\ Len(newest) = k /\ \A i \in 1..k : newest[i] = more[from + i]
  <2> HIDE DEF L, more, from
  <2>1. from \in Nat /\ from < L + 1 /\ (L + 1) - from = k
    BY <1>1, <1>3
  <2> HIDE DEF k
  <2> QED BY <1>2, <1>3, <2>1, SubSeqIs
<1>6. old \in Seq(A) /\ Len(old) = k - 1 /\ \A i \in 1..(k - 1) : old[i] = log[from + i]
  <2> HIDE DEF more, from
  <2>1. from \in Nat /\ L <= Len(log) /\ L - from = k - 1 /\ (IF from < L THEN L - from ELSE 0) = k - 1
    BY <1>1, <1>3
  <2> HIDE DEF k, L
  <2> QED BY <1>1, <2>1, SubSeqIs
<1>7. cut \in Seq(A) /\ Len(cut) = k - 1 /\ \A i \in 1..(k - 1) : cut[i] = newest[0 + i]
  <2> HIDE DEF L, more, from, newest, k
  <2>1. k - 1 <= Len(newest) /\ (k - 1) - 0 = k - 1 /\ (IF 0 < k - 1 THEN (k - 1) - 0 ELSE 0) = k - 1 /\ 0 \in Nat
    BY <1>3, <1>5
  <2> QED BY <1>3, <1>5, <2>1, SubSeqIs
<1> HIDE DEF L, more, from, newest, k, old, cut
<1>8. ASSUME NEW i \in 1..(k - 1) PROVE cut[i] = old[i]
  <2>1. i \in 1..k /\ 0 + i = i /\ from + i \in 1..L
    BY <1>1, <1>3
  <2> QED BY <1>2, <1>5, <1>6, <1>7, <2>1
<1>9. cut = old
  BY <1>3, <1>6, <1>7, <1>8
<1> QED BY <1>4, <1>5, <1>9 DEF cut, more

-----------------------------------------------------------------------------
\* No two requests at work share a session that is not marked as shared.
Together ==
  \A q, r \in Request :
    q # r /\ pc[q] \in Working /\ pc[r] \in Working /\ session[q] = session[r] => session[q] \in shared

\* Until the history is read, the question is the newest message of its session.
Prompted(r) ==
  session[r] \notin shared =>
    /\ pc[r] \in {"search", "history"} => Of(session[r], messages) = Append(Past(r), Says(r, "question"))
    /\ pc[r] = "model" => prompt[r] = LastOf(History - 1, Past(r))

PromptInv == TypeOK /\ RecordInv /\ Together /\ \A r \in Request : Prompted(r)

Later == \E m \in Message : messages' = Append(messages, m)

\* What comes before a message does not change when one is added.
LEMMA StartStays ==
  ASSUME Types, messages' = messages \/ Later, NEW i \in 1..Len(messages)
  PROVE  SubSeq(messages', 1, i - 1) = SubSeq(messages, 1, i - 1)
<1> SUFFICES ASSUME NEW m \in Message, messages' = Append(messages, m)
             PROVE  SubSeq(messages', 1, i - 1) = SubSeq(messages, 1, i - 1)
  BY DEF Later
<1> DEFINE t == i - 1
           log == messages
           more == Append(messages, m)
           a == SubSeq(log, 0 + 1, t)
           b == SubSeq(more, 0 + 1, t)
<1>1. /\ log \in Seq(Message) /\ more \in Seq(Message) /\ t \in Nat /\ t <= Len(log) /\ t <= Len(more)
      /\ \A n \in 1..t : more[n] = log[n]
  BY DEF Types
<1>2. messages' = more /\ log = messages /\ 0 \in Nat
  OBVIOUS
<1> HIDE DEF t, log, more
<1>3. a \in Seq(Message) /\ Len(a) = (IF 0 < t THEN t - 0 ELSE 0) /\ \A n \in 1..(t - 0) : a[n] = log[0 + n]
  BY <1>1, <1>2, SubSeqIs
<1>4. b \in Seq(Message) /\ Len(b) = (IF 0 < t THEN t - 0 ELSE 0) /\ \A n \in 1..(t - 0) : b[n] = more[0 + n]
  BY <1>1, <1>2, SubSeqIs
<1> HIDE DEF a, b
<1>5. Len(a) = t /\ Len(b) = t /\ \A n \in 1..t : a[n] = log[n] /\ b[n] = more[n]
  BY <1>1, <1>3, <1>4
<1>6. a = b
  BY <1>1, <1>3, <1>4, <1>5
<1> QED BY <1>2, <1>6 DEF a, b, t

LEMMA PastIs ==
  ASSUME NEW q, NEW i, Mine(q, {"question"}) = {i}
  PROVE  Past(q) = Of(session[q], SubSeq(messages, 1, i - 1))
<1>1. (CHOOSE x \in Mine(q, {"question"}) : TRUE) = i
  OBVIOUS
<1> QED BY <1>1 DEF Past

LEMMA PastTyped ==
  ASSUME Types, NEW q, NEW i \in 1..Len(messages), Mine(q, {"question"}) = {i}
  PROVE  Past(q) \in Seq(Message)
<1>1. messages \in Seq(Message) /\ 0 \in Nat /\ i - 1 \in Nat /\ i - 1 <= Len(messages)
  BY DEF Types
<1>2. SubSeq(messages, 0 + 1, i - 1) \in Seq(Message)
  BY <1>1, SubSeqIs
<1>3. SubSeq(messages, 1, i - 1) \in Seq(Message)
  <2>1. 0 + 1 = 1
    OBVIOUS
  <2> QED BY <1>2, <2>1
<1> QED BY <1>3, PastIs, OfTyped

LEMMA PastStays ==
  ASSUME Types, NEW q, NEW i \in 1..Len(messages), Mine(q, {"question"}) = {i},
         messages' = messages \/ Later, Mine(q, {"question"})' = {i}, session'[q] = session[q]
  PROVE  Past(q)' = Past(q)
<1>1. (CHOOSE x \in Mine(q, {"question"})' : TRUE) = i
  OBVIOUS
<1>2. Past(q)' = Of(session'[q], SubSeq(messages', 1, i - 1))
  BY <1>1 DEF Past
<1> QED BY <1>2, PastIs, StartStays

-----------------------------------------------------------------------------
\* A step of one request leaves what the others gave, or will give, the model.
LEMMA OthersPrompted ==
  ASSUME PromptInv, NEW r \in Request, NEW q \in Request \ {r},
         pc'[q] = pc[q], session'[q] = session[q], prompt'[q] = prompt[q], shared \subseteq shared',
         \/ messages' = messages
         \/ /\ pc[r] \in Working
            /\ \E m \in Message : messages' = Append(messages, m) /\ m.request = r /\ m.session = session[r]
  PROVE  Prompted(q)'
<1> SUFFICES ASSUME session[q] \notin shared, pc[q] \in {"search", "history", "model"}
             PROVE  /\ Of(session[q], messages') = Of(session[q], messages)
                    /\ Past(q)' = Past(q)
  BY DEF Prompted, PromptInv, Says
<1>1. Types /\ Stands(q) /\ pc[q] \in Asked /\ pc[q] \in Working
  BY DEF PromptInv, RecordInv, Asked, Working
<1>2. PICK i \in 1..Len(messages) : Mine(q, {"question"}) = {i}
  BY <1>1 DEF Stands
<1>3. CASE messages' = messages
  <2>1. Mine(q, {"question"})' = {i}
    BY <1>2, <1>3 DEF Mine
  <2> QED BY <1>1, <1>2, <1>3, <2>1, PastStays
<1>4. ASSUME pc[r] \in Working, NEW m \in Message, messages' = Append(messages, m),
             m.request = r, m.session = session[r]
      PROVE  /\ Of(session[q], messages') = Of(session[q], messages)
             /\ Past(q)' = Past(q)
  <2>1. m.session # session[q]
    BY <1>1, <1>4 DEF PromptInv, Together
  <2>2. messages \in Seq(Message)
    BY <1>1 DEF Types
  <2>3. Of(session[q], messages') = Of(session[q], messages)
    BY <1>4, <2>1, <2>2, OfAppend
  <2>4. Mine(q, {"question"})' = {i}
    BY <1>2, <1>4, <2>2, MineAppend
  <2>5. Later
    BY <1>4 DEF Later
  <2> QED BY <1>1, <1>2, <2>3, <2>4, <2>5, PastStays
<1> QED BY <1>3, <1>4

LEMMA QuestionPrompted ==
  ASSUME PromptInv, NEW r \in Request, SaveQuestion(r)
  PROVE  Prompted(r)'
<1> DEFINE m == Says(r, "question")
<1>1. pc[r] = "question" /\ pc' = [pc EXCEPT ![r] = "search"] /\ messages' = Append(messages, m)
      /\ session' = session
  BY DEF SaveQuestion, Go, local
<1>2. Types /\ Stands(r)
  BY DEF PromptInv, RecordInv
<1>3. session[r] \in Session
  BY <1>1, <1>2 DEF Stands, Working
<1>4. m \in Message /\ m.request = r /\ m.text = "question" /\ m.session = session[r]
  BY <1>3 DEF Says, Message
<1>5. messages \in Seq(Message) /\ messages' \in Seq(Message) /\ Len(messages') = Len(messages) + 1 /\ Len(messages) \in Nat
  BY <1>1, <1>2, <1>4 DEF Types
<1> DEFINE i == Len(messages) + 1
<1>6. Mine(r, {"question"})' = {i}
  <2>1. Mine(r, Texts) = {}
    BY <1>1, <1>2 DEF Stands, Early
  <2>2. Mine(r, {"question"}) = {}
    BY <2>1 DEF Mine, Texts
  <2> HIDE DEF m
  <2> QED BY <1>1, <1>4, <1>5, <2>2, MineAppend
<1>7. (CHOOSE x \in Mine(r, {"question"})' : TRUE) = i
  BY <1>6
<1>8. SubSeq(messages', 1, i - 1) = messages
  <2> HIDE DEF m
  <2>1. i - 1 = Len(messages)
    BY <1>5
  <2>2. Append(messages, m) \in Seq(Message) /\ 0 \in Nat /\ Len(messages) <= Len(Append(messages, m))
    BY <1>1, <1>5
  <2> DEFINE more == Append(messages, m)
             t == Len(messages)
             a == SubSeq(more, 0 + 1, t)
  <2>3. \A n \in 1..t : more[n] = messages[n]
    BY <1>4, <1>5
  <2> HIDE DEF more, t
  <2>4. more \in Seq(Message) /\ t \in Nat /\ t <= Len(more) /\ 0 \in Nat
    BY <1>5, <2>2 DEF more, t
  <2>5. a \in Seq(Message) /\ Len(a) = (IF 0 < t THEN t - 0 ELSE 0) /\ \A n \in 1..(t - 0) : a[n] = more[0 + n]
    BY <2>4, SubSeqIs
  <2> HIDE DEF a
  <2>6. Len(a) = t /\ \A n \in 1..t : a[n] = messages[n]
    BY <2>3, <2>4, <2>5
  <2>7. a = messages
    BY <1>5, <2>5, <2>6 DEF t
  <2> QED BY <1>1, <2>1, <2>7 DEF a, more, t
<1>9. Past(r)' = Of(session[r], messages)
  <2> HIDE DEF i
  <2>1. Past(r)' = Of(session'[r], SubSeq(messages', 1, i - 1))
    BY <1>7 DEF Past
  <2> QED BY <1>1, <1>8, <2>1
<1>10. Of(session[r], messages') = Append(Of(session[r], messages), m)
  <2> HIDE DEF m
  <2> QED BY <1>1, <1>4, <1>5, OfAppend
<1>11. pc'[r] = "search" /\ Says(r, "question")' = m
  BY <1>1, <1>2 DEF Types, Says
<1> QED BY <1>1, <1>9, <1>10, <1>11 DEF Prompted

LEMMA HistoryPrompted ==
  ASSUME PromptInv, NEW r \in Request, ReadHistory(r)
  PROVE  Prompted(r)'
<1>1. pc[r] = "history" /\ pc' = [pc EXCEPT ![r] = "model"] /\ messages' = messages /\ session' = session
      /\ shared' = shared
  BY DEF ReadHistory, Go, tables
<1>2. Types /\ Stands(r) /\ Prompted(r)
  BY DEF PromptInv, RecordInv
<1>3. session[r] \in Session
  BY <1>1, <1>2 DEF Stands, Working
<1>4. PICK i \in 1..Len(messages) : Mine(r, {"question"}) = {i}
  BY <1>1, <1>2 DEF Stands, Asked
<1> SUFFICES ASSUME session[r] \notin shared
             PROVE  prompt'[r] = LastOf(History - 1, Past(r)')
  <2>1. pc'[r] = "model"
    BY <1>1, <1>2 DEF Types
  <2> QED BY <1>1, <2>1 DEF Prompted
<1> DEFINE m == Says(r, "question")
           p == Past(r)
           newest == LastOf(History, Of(session[r], messages))
<1>5. Past(r)' = p
  <2>1. Mine(r, {"question"})' = {i}
    BY <1>1, <1>4 DEF Mine
  <2> QED BY <1>1, <1>2, <1>4, <2>1, PastStays
<1>6. Of(session[r], messages) = Append(p, m)
  BY <1>1, <1>2 DEF Prompted
<1>7. p \in Seq(Message) /\ m \in Message /\ History \in Nat \ {0}
  BY <1>2, <1>3, <1>4, PastTyped, ChatAssumption DEF Says, Message
<1>8. prompt'[r] = SubSeq(newest, 1, Len(newest) - 1)
  BY DEF ReadHistory, PromptInv, TypeOK
<1> HIDE DEF m, p
<1>9. SubSeq(LastOf(History, Append(p, m)), 1, Len(LastOf(History, Append(p, m))) - 1) = LastOf(History - 1, p)
  BY <1>7, LastButOne
<1> QED BY <1>5, <1>6, <1>8, <1>9

-----------------------------------------------------------------------------
LEMMA TogetherStays ==
  ASSUME PromptInv, NEW r \in Request, \A q \in Request \ {r} : pc'[q] = pc[q],
         pc'[r] \in Working => pc[r] \in Working, session' = session, shared' = shared
  PROVE  Together'
BY DEF PromptInv, Together

LEMMA BeginTogether ==
  ASSUME PromptInv, NEW r \in Request, NEW s \in Session, Begin(r, s)
  PROVE  Together'
<1>1. /\ \A q \in Request \ {r} : pc'[q] = pc[q] /\ session'[q] = session[q]
      /\ session'[r] = s /\ shared \subseteq shared'
      /\ Active(s) # {} => s \in shared'
  BY DEF PromptInv, TypeOK, Begin, Go
<1>2. ASSUME NEW q \in Request \ {r}, pc[q] \in Working, session[q] = s
      PROVE  s \in shared'
  BY <1>1, <1>2 DEF Active
<1>3. \A p, q \in Request \ {r} :
        p # q /\ pc'[p] \in Working /\ pc'[q] \in Working /\ session'[p] = session'[q] => session'[p] \in shared'
  BY <1>1 DEF PromptInv, Together
<1> QED BY <1>1, <1>2, <1>3 DEF Together

LEMMA HistoryTyped ==
  ASSUME PromptInv, NEW r \in Request, ReadHistory(r)
  PROVE  prompt' \in [Request -> Seq(Message)]
<1> DEFINE log == Of(session[r], messages)
           newest == LastOf(History, log)
<1>1. log \in Seq(Message)
  BY OfTyped DEF PromptInv, TypeOK
<1>2. newest \in Seq(Message)
  <2> DEFINE t == Len(log)
             a == IF t > History THEN t - History ELSE 0
  <2>1. t \in Nat /\ t <= Len(log) /\ History \in Nat
    BY <1>1, ChatAssumption
  <2>2. a \in Nat /\ (IF t > History THEN t - History + 1 ELSE 1) = a + 1
    <3> HIDE DEF t
    <3> QED BY <2>1
  <2>3. newest = SubSeq(log, IF t > History THEN t - History + 1 ELSE 1, t)
    BY DEF LastOf
  <2> HIDE DEF log, a, t
  <2> QED BY <1>1, <2>1, <2>2, <2>3, SubSeqIs
<1>3. SubSeq(newest, 1, Len(newest) - 1) \in Seq(Message)
  <2> HIDE DEF newest
  <2>1. CASE Len(newest) = 0
    BY <1>2, <2>1
  <2>2. CASE Len(newest) # 0
    <3> DEFINE k == Len(newest) - 1
    <3>1. k \in Nat /\ k <= Len(newest) /\ 0 \in Nat /\ 0 + 1 = 1
      BY <1>2, <2>2
    <3> HIDE DEF k
    <3>2. SubSeq(newest, 0 + 1, k) \in Seq(Message)
      BY <1>2, <3>1, SubSeqIs
    <3> QED BY <3>1, <3>2 DEF k
  <2> QED BY <2>1, <2>2
<1>4. prompt' = [prompt EXCEPT ![r] = SubSeq(newest, 1, Len(newest) - 1)]
  BY DEF ReadHistory
<1> HIDE DEF newest
<1> QED BY <1>3, <1>4 DEF PromptInv, TypeOK

LEMMA TypesKept ==
  ASSUME PromptInv, RecordInv', sessions' \subseteq sessions \cup Session,
         prompt' \in [Request -> Seq(Message)], shared' \subseteq shared \cup Session
  PROVE  TypeOK'
BY DEF PromptInv, RecordInv, Types, TypeOK, States

LEMMA PromptStep ==
  ASSUME PromptInv, NEW r \in Request, Step(r)
  PROVE  PromptInv'
<1>1. TypeOK /\ Types /\ Stands(r) /\ Prompted(r) /\ (pc[r] \in Working => session[r] \in Session)
  BY DEF PromptInv, RecordInv, Stands
<1>2. RecordInv'
  BY StepInductive DEF PromptInv
<1>3. /\ \A q \in Request \ {r} : pc'[q] = pc[q]
      /\ pc'[r] \in Working => pc[r] \in Working
      /\ session' = session /\ shared' = shared
  BY <1>1 DEF TypeOK, Step, FindSession, CreateSession, SaveQuestion, SearchFinds, SearchFindsNothing,
              ReadHistory, Generate, SaveAnswer, Reply, Fail, Go, Working, tables, local
<1>4. Together'
  BY <1>3, TogetherStays
<1>5. sessions' \subseteq sessions \cup Session
  BY <1>1 DEF Step, FindSession, CreateSession, SaveQuestion, SearchFinds, SearchFindsNothing,
              ReadHistory, Generate, SaveAnswer, Reply, Fail, Go, Working, tables, local
<1>6. prompt' \in [Request -> Seq(Message)] /\ \A q \in Request \ {r} : prompt'[q] = prompt[q]
  <2>1. CASE ReadHistory(r)
    BY <1>1, <2>1, HistoryTyped DEF TypeOK, ReadHistory
  <2>2. CASE ~ReadHistory(r)
    <3>1. prompt' = prompt
      BY <2>2 DEF Step, FindSession, CreateSession, SaveQuestion, SearchFinds, SearchFindsNothing,
                  Generate, SaveAnswer, Reply, Fail, tables, local
    <3> QED BY <1>1, <3>1 DEF TypeOK
  <2> QED BY <2>1, <2>2
<1>7. TypeOK'
  BY <1>2, <1>3, <1>5, <1>6, TypesKept
<1>8. \/ messages' = messages
      \/ /\ pc[r] \in Working
         /\ \E m \in Message : messages' = Append(messages, m) /\ m.request = r /\ m.session = session[r]
  <2>1. CASE SaveQuestion(r)
    <3>1. pc[r] \in Working /\ Says(r, "question") \in Message
      BY <1>1, <2>1 DEF Says, Message, SaveQuestion, Go, Working
    <3> QED BY <2>1, <3>1 DEF SaveQuestion, Says
  <2>2. CASE SaveAnswer(r)
    <3>1. pc[r] \in Working /\ Says(r, answer[r]) \in Message
      BY <1>1, <2>2 DEF Says, Message, SaveAnswer, Go, Stands, Working
    <3> QED BY <2>2, <3>1 DEF SaveAnswer, Says
  <2>3. CASE ~SaveQuestion(r) /\ ~SaveAnswer(r)
    BY <2>3 DEF Step, FindSession, CreateSession, SearchFinds, SearchFindsNothing,
                ReadHistory, Generate, Reply, Fail, tables
  <2> QED BY <2>1, <2>2, <2>3
<1>9. \A q \in Request \ {r} : Prompted(q)'
  BY <1>3, <1>6, <1>8, OthersPrompted
<1>10. Prompted(r)'
  <2>1. CASE SaveQuestion(r)
    BY <2>1, QuestionPrompted
  <2>2. CASE ReadHistory(r)
    BY <2>2, HistoryPrompted
  <2>3. CASE SearchFinds(r)
    <3>1. pc[r] = "search" /\ pc'[r] = "history" /\ messages' = messages /\ session' = session /\ shared' = shared
      BY <1>1, <2>3 DEF TypeOK, SearchFinds, Go, tables, local
    <3>2. PICK i \in 1..Len(messages) : Mine(r, {"question"}) = {i}
      BY <1>1, <3>1 DEF Stands, Asked
    <3>3. Mine(r, {"question"})' = {i}
      BY <3>1, <3>2 DEF Mine
    <3>4. Past(r)' = Past(r)
      BY <1>1, <3>1, <3>2, <3>3, PastStays
    <3>5. Says(r, "question")' = Says(r, "question")
      BY <3>1 DEF Says
    <3> QED BY <1>1, <3>1, <3>4, <3>5 DEF Prompted
  <2>4. CASE ~SaveQuestion(r) /\ ~ReadHistory(r) /\ ~SearchFinds(r)
    <3>1. pc'[r] \notin {"search", "history", "model"}
      BY <1>1, <2>4 DEF TypeOK, Step, FindSession, CreateSession, SearchFindsNothing, Generate, SaveAnswer, Reply, Fail, Go
    <3> QED BY <3>1 DEF Prompted
  <2> QED BY <2>1, <2>2, <2>3, <2>4
<1> QED BY <1>2, <1>4, <1>7, <1>9, <1>10 DEF PromptInv

LEMMA PromptStart ==
  ASSUME PromptInv, NEW r \in Request, Refuse(r) \/ \E s \in Session : Begin(r, s)
  PROVE  PromptInv'
<1>1. TypeOK /\ RecordInv'
  BY StartInductive DEF PromptInv
<1>2. /\ \A q \in Request \ {r} : pc'[q] = pc[q] /\ session'[q] = session[q]
      /\ pc'[r] \in {"session", "refused"}
      /\ sessions' = sessions /\ prompt' = prompt /\ messages' = messages
      /\ shared \subseteq shared' /\ shared' \subseteq shared \cup Session
  BY <1>1 DEF TypeOK, Refuse, Begin, Go, tables, local
<1>3. TypeOK'
  BY <1>1, <1>2, TypesKept DEF TypeOK
<1>4. Together'
  <2>1. CASE Refuse(r)
    <3>1. pc'[r] = "refused" /\ session' = session /\ shared' = shared
      BY <1>1, <2>1 DEF TypeOK, Refuse, Go, local
    <3> QED BY <1>2, <3>1, TogetherStays DEF Working
  <2> QED BY <2>1, BeginTogether
<1>5. \A q \in Request \ {r} : Prompted(q)'
  BY <1>2, OthersPrompted
<1>6. Prompted(r)'
  BY <1>2 DEF Prompted
<1> QED BY <1>1, <1>3, <1>4, <1>5, <1>6 DEF PromptInv

\* Between two requests that do not share a session, the model is given the
\* past of the session and not the question, whatever fails on the way.
THEOREM PromptsHold == Spec => []PromptIsPast
<1>1. Init => PromptInv
  <2> SUFFICES ASSUME Init PROVE PromptInv
    OBVIOUS
  <2>1. \A r \in Request : pc[r] = "new"
    BY DEF Init
  <2>2. RecordInv
    BY RecordInit
  <2>3. TypeOK
    BY DEF Init, TypeOK
  <2> QED BY <2>1, <2>2, <2>3 DEF PromptInv, Together, Prompted, Working
<1>2. PromptInv /\ [Next]_vars => PromptInv'
  <2>1. CASE Next
    BY <2>1, PromptStep, PromptStart DEF Next
  <2>2. ASSUME PromptInv, UNCHANGED vars PROVE PromptInv'
    <3>1. /\ messages' = messages /\ pc' = pc /\ session' = session /\ answer' = answer
          /\ sessions' = sessions /\ prompt' = prompt /\ shared' = shared
      BY <2>2 DEF vars, tables, local
    <3>2. TypeOK' /\ Together'
      BY <2>2, <3>1 DEF PromptInv, TypeOK, Together
    <3>3. RecordInv'
      BY <2>2, <3>1 DEF PromptInv, RecordInv, Types, Stands, Recorded, Mine
    <3>4. \A r \in Request : Prompted(r)'
      BY <2>2, <3>1 DEF PromptInv, Prompted, Past, Mine, Says
    <3> QED BY <3>2, <3>3, <3>4 DEF PromptInv
  <2> QED BY <2>1, <2>2
<1>3. PromptInv => PromptIsPast
  BY DEF PromptInv, Prompted, PromptIsPast
<1> QED BY <1>1, <1>2, <1>3, PTL DEF Spec
=============================================================================
