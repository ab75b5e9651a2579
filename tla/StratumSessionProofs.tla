------------------------ MODULE StratumSessionProofs ------------------------
(***************************************************************************)
(* Safety of the session and its RPC layer, for any number of calls: an    *)
(* answer finds the call it is for as long as somebody waits, and never a  *)
(* call of another connection.                                             *)
(***************************************************************************)
EXTENDS StratumSession, TLAPS

\* Ids on the connection.
OnWire == requests \cup {a.id : a \in answers}

\* Between two sessions nothing is registered and nothing is on the wire; in
\* the handshake only its own call is; after it nobody awaits a handshake.
PhaseInv ==
  /\ phase = "down" => pending = {} /\ OnWire = {}
  /\ phase \in {"subscribe", "authorize"} => handshake \in Ids
  /\ phase \notin {"subscribe", "authorize"} => handshake = None

\* An id is on the wire once, and not any more when its call is resolved.
OnceInv ==
  /\ \A a \in answers : /\ a.id \notin requests
                        /\ \A b \in answers : b.id = a.id => b = a
  /\ \A i \in Ids : call[i] \in Says => i \notin pending \cup OnWire

SessionInv == /\ TypeOK /\ PhaseInv /\ OnceInv
              /\ AnswerFindsCaller /\ NoAnswerAcrossSessions

-----------------------------------------------------------------------------
LEMMA InitInv == Init => SessionInv
<1> SUFFICES ASSUME Init PROVE SessionInv
  OBVIOUS
<1>1. reader \in BOOLEAN /\ link \in Links
  BY DEF Init, Links
<1> QED
  BY <1>1, BoundAssumption DEF Init, SessionInv, TypeOK, PhaseInv, OnceInv,
     OnWire, Phases, CallStates, Says, AnswerFindsCaller, NoAnswerAcrossSessions

\* A fresh id is nowhere.
LEMMA FreshId ==
  ASSUME NEW i \in Fresh
  PROVE  i \in Ids /\ call[i] = "free" /\ i \notin pending \cup OnWire
BY DEF Fresh, OnWire

\* Counting keeps the bounds.
LEMMA CountTyped ==
  ASSUME NEW n \in 0..MaxStreak
  PROVE  Count(n) \in 0..MaxStreak
BY BoundAssumption DEF Count

LEMMA LongerTyped == TypeOK => Longer \in 0..MaxBackoff
BY BoundAssumption DEF TypeOK, Longer

LEMMA SendsTyped == TypeOK /\ Sends => link' \in Links
BY DEF TypeOK, Sends, Links

\* A session begins.
LEMMA ConnectInv ==
  ASSUME SessionInv, NEW i \in Ids, Connect(i)
  PROVE  SessionInv'
<1>1. i \in Fresh /\ phase = "down"
  BY DEF Connect
<1>2. reader' \in BOOLEAN /\ link' \in Links
  BY DEF Connect, Links
<1>3. call' \in [Ids -> CallStates] /\ call'[i] = "waiting"
  BY DEF Connect, Register, SessionInv, TypeOK, CallStates
<1>4. pending' = {i} /\ OnWire' = {i} /\ handshake' = i /\ phase' = "subscribe"
  BY <1>1 DEF Connect, Register, SessionInv, PhaseInv, OnWire
<1>5. TypeOK'
  BY <1>2, <1>3, <1>4 DEF Connect, SessionInv, TypeOK, Phases, history
<1>6. OnceInv'
  <2>1. \A k \in Ids : k # i => call'[k] = call[k]
    BY DEF Connect, Register, SessionInv, TypeOK
  <2> QED
    BY <1>3, <1>4, <2>1 DEF Connect, OnceInv, Says
<1> QED
  BY <1>3, <1>4, <1>5, <1>6 DEF Connect, SessionInv, PhaseInv, OnWire,
     AnswerFindsCaller, NoAnswerAcrossSessions

\* The handshake's call has its answer: nothing is registered or on the wire.
LEMMA HandshakeAlone ==
  ASSUME SessionInv, phase \in {"subscribe", "authorize"},
         call[handshake] \in Says
  PROVE  pending = {} /\ OnWire = {}
BY DEF SessionInv, PhaseInv, OnceInv, NoAnswerAcrossSessions, OnWire

\* mining.authorize follows mining.subscribe.
LEMMA SubscribedInv ==
  ASSUME SessionInv, NEW i \in Ids, Subscribed(i)
  PROVE  SessionInv'
<1>1. i \in Fresh /\ phase = "subscribe" /\ handshake \in Ids
  BY DEF Subscribed, SessionInv, PhaseInv
<1>2. pending = {} /\ OnWire = {}
  BY <1>1, HandshakeAlone DEF Subscribed, Answered, Says
<1>3. i # handshake
  BY <1>1, FreshId DEF Subscribed, Answered
<1>4. /\ call' \in [Ids -> CallStates]
      /\ call'[i] = "waiting" /\ call'[handshake] = "free"
      /\ \A k \in Ids \ {i, handshake} : call'[k] = call[k]
  BY <1>1, <1>3 DEF Subscribed, SessionInv, TypeOK, CallStates
<1>5. /\ pending' = {i} /\ OnWire' \subseteq {i} /\ answers' = {}
      /\ handshake' = i /\ phase' = "authorize"
  BY <1>2 DEF Subscribed, Written, OnWire
<1>6. requests' \subseteq Ids
  BY <1>5 DEF OnWire
<1>7. reader' \in BOOLEAN /\ link' \in Links
  BY SendsTyped DEF Subscribed, Written, SessionInv, TypeOK
<1>8. TypeOK'
  BY <1>4, <1>5, <1>6, <1>7 DEF Subscribed, SessionInv, TypeOK, Phases, history
<1>9. OnceInv'
  BY <1>4, <1>5 DEF SessionInv, OnceInv, Says
<1> QED
  BY <1>5, <1>8, <1>9 DEF SessionInv, PhaseInv, OnWire,
     AnswerFindsCaller, NoAnswerAcrossSessions

\* The call of i is over, whatever it waited for: nobody looks for its answer.
LEMMA CallEnds ==
  ASSUME SessionInv, NEW i \in Ids,
         call' = [call EXCEPT ![i] = "free"],
         pending' \in {pending, pending \ {i}},
         UNCHANGED network
  PROVE  /\ call' \in [Ids -> CallStates]
         /\ pending' \subseteq Ids
         /\ OnWire' = OnWire
         /\ OnceInv'
         /\ AnswerFindsCaller'
<1>1. /\ call' \in [Ids -> CallStates]
      /\ call'[i] = "free"
      /\ \A k \in Ids : k # i => call'[k] = call[k]
  BY DEF SessionInv, TypeOK, CallStates
<1>2. pending' \subseteq Ids
  BY DEF SessionInv, TypeOK
<1>3. requests' = requests /\ answers' = answers /\ OnWire' = OnWire
  BY DEF network, OnWire
<1>4. OnceInv'
  BY <1>1, <1>3 DEF SessionInv, OnceInv, Says
<1>5. AnswerFindsCaller'
  BY <1>1, <1>3 DEF SessionInv, AnswerFindsCaller
<1> QED
  BY <1>1, <1>2, <1>3, <1>4, <1>5

\* The handshake is over, one way or the other.
LEMMA HandshakeEnds ==
  ASSUME SessionInv, Authorized \/ HandshakeRefused \/ HandshakeTimeout
  PROVE  SessionInv'
<1>1. phase \in {"subscribe", "authorize"} /\ handshake \in Ids
  BY DEF Authorized, HandshakeRefused, HandshakeTimeout, SessionInv, PhaseInv
<1>2. /\ call' = [call EXCEPT ![handshake] = "free"]
      /\ pending' \in {pending, pending \ {handshake}}
      /\ UNCHANGED network
      /\ handshake' = None
      /\ phase' \in {"up", "failed"}
      /\ backoff' = backoff
      /\ reader' = reader
      /\ streak' \in {streak, 0}
      /\ own' \in {own, 0}
      /\ current' \in {current, {}}
  BY DEF Authorized, HandshakeRefused, HandshakeTimeout, network, history
<1>3. /\ call' \in [Ids -> CallStates] /\ pending' \subseteq Ids
      /\ OnceInv' /\ AnswerFindsCaller'
  BY <1>1, <1>2, CallEnds
<1>4. reader' \in BOOLEAN /\ link' \in Links
  BY <1>2 DEF network, SessionInv, TypeOK
<1>5. TypeOK'
  BY <1>2, <1>3, <1>4, BoundAssumption DEF network, SessionInv, TypeOK, Phases
<1> QED
  BY <1>2, <1>3, <1>5 DEF SessionInv, PhaseInv, NoAnswerAcrossSessions

LEMMA TeardownInv ==
  ASSUME SessionInv, Teardown
  PROVE  SessionInv'
<1>1. /\ phase' = "down" /\ pending' = {} /\ OnWire' = {}
      /\ requests' = {} /\ answers' = {}
  BY DEF Teardown, OnWire
<1>2. handshake' = None
  BY DEF Teardown, SessionInv, PhaseInv
<1>3. reader' \in BOOLEAN /\ link' \in Links
  BY DEF Teardown, Links
<1>4. backoff' \in 0..MaxBackoff
  BY LongerTyped DEF Teardown, SessionInv
<1>5. TypeOK'
  BY <1>1, <1>2, <1>3, <1>4 DEF Teardown, SessionInv, TypeOK, Phases, history
<1> QED
  BY <1>1, <1>2, <1>5 DEF Teardown, SessionInv, PhaseInv, OnceInv,
     AnswerFindsCaller, NoAnswerAcrossSessions
-----------------------------------------------------------------------------
(* The reader and the network. *)

\* The reader takes an answer: it was the only trace of its id on the wire.
LEMMA ReceiveInv ==
  ASSUME SessionInv, Receive
  PROVE  SessionInv'
<1>1. PICK a \in answers :
        /\ answers' = answers \ {a}
        /\ pending' = pending \ {a.id}
        /\ call' = IF a.id \in pending /\ call[a.id] = "waiting"
                     THEN [call EXCEPT ![a.id] = a.says] ELSE call
  BY DEF Receive
<1>2. /\ UNCHANGED <<phase, backoff, reader, handshake, streak, link, requests>>
      /\ UNCHANGED <<current, own>>
  BY DEF Receive, history
<1>3. a.id \in Ids /\ a.says \in Says
  BY DEF SessionInv, TypeOK
<1>4. /\ call' \in [Ids -> CallStates]
      /\ \A k \in Ids : k # a.id => call'[k] = call[k]
      /\ call'[a.id] # "waiting"
  <2>1. call[a.id] = "waiting" => a.id \in pending
    BY <1>3 DEF SessionInv, AnswerFindsCaller
  <2> QED
    BY <1>1, <1>3, <2>1 DEF SessionInv, TypeOK, CallStates, Says
<1>5. OnWire' \subseteq OnWire \ {a.id}
  BY <1>1, <1>2 DEF SessionInv, OnceInv, OnWire
<1>6. reader' \in BOOLEAN /\ link' \in Links
  BY <1>2 DEF SessionInv, TypeOK
<1>7. TypeOK'
  BY <1>1, <1>2, <1>4, <1>6 DEF SessionInv, TypeOK
<1>8. OnceInv'
  BY <1>1, <1>2, <1>4, <1>5 DEF SessionInv, OnceInv
<1>9. AnswerFindsCaller'
  <2>1. \A k \in OnWire' : k # a.id /\ k \in OnWire
    BY <1>5
  <2> QED
    BY <1>1, <1>4, <2>1 DEF SessionInv, AnswerFindsCaller, OnWire
<1>10. PhaseInv' /\ NoAnswerAcrossSessions'
  BY <1>1, <1>2, <1>5 DEF SessionInv, PhaseInv, NoAnswerAcrossSessions, OnWire
<1> QED
  BY <1>7, <1>8, <1>9, <1>10 DEF SessionInv

LEMMA ReaderEndsInv ==
  ASSUME SessionInv, ReaderEnds \/ ReaderRaises
  PROVE  SessionInv'
<1>1. /\ phase' \in {phase, "closing"}
      /\ phase' # phase => phase = "up"
      /\ UNCHANGED <<backoff, handshake, pending, call, streak>>
      /\ UNCHANGED <<link, requests, answers, current, own>>
  BY DEF ReaderEnds, ReaderRaises, network, history
<1>2. reader' \in BOOLEAN /\ link' \in Links
  BY <1>1 DEF ReaderEnds, ReaderRaises, SessionInv, TypeOK
<1>3. TypeOK'
  BY <1>1, <1>2 DEF SessionInv, TypeOK, Phases
<1>4. PhaseInv' /\ NoAnswerAcrossSessions'
  BY <1>1 DEF SessionInv, PhaseInv, NoAnswerAcrossSessions, OnWire
<1> QED
  BY <1>1, <1>3, <1>4 DEF SessionInv, OnceInv, AnswerFindsCaller, OnWire

\* An answer takes the place of its request.
LEMMA PoolAnswersInv ==
  ASSUME SessionInv, NEW i \in Ids, NEW says \in Says, PoolAnswers(i, says)
  PROVE  SessionInv'
<1>1. /\ i \in requests
      /\ requests' = requests \ {i}
      /\ answers' = answers \cup {[id |-> i, says |-> says]}
      /\ UNCHANGED <<phase, backoff, reader, handshake, pending, call, streak>>
      /\ UNCHANGED <<link, current, own>>
  BY DEF PoolAnswers, client, history
<1>2. OnWire' = OnWire
  <2>1. {a.id : a \in answers'} = {a.id : a \in answers} \cup {i}
    <3> DEFINE new == [id |-> i, says |-> says]
    <3>1. new.id = i /\ answers' = answers \cup {new}
      BY <1>1
    <3> HIDE DEF new
    <3> QED
      BY <3>1, Zenon
  <2>2. requests' \cup {i} = requests
    BY <1>1
  <2> QED
    BY <2>1, <2>2 DEF OnWire
<1>3. reader' \in BOOLEAN /\ link' \in Links
  BY <1>1 DEF SessionInv, TypeOK
<1>4. TypeOK'
  BY <1>1, <1>3 DEF SessionInv, TypeOK
<1>5. OnceInv'
  BY <1>1, <1>2 DEF SessionInv, OnceInv
<1>6. AnswerFindsCaller' /\ NoAnswerAcrossSessions' /\ PhaseInv'
  BY <1>1, <1>2
     DEF SessionInv, AnswerFindsCaller, NoAnswerAcrossSessions, PhaseInv, OnWire
<1> QED
  BY <1>4, <1>5, <1>6 DEF SessionInv

LEMMA LinkLostInv ==
  ASSUME SessionInv, LinkLost \/ LinkCut
  PROVE  SessionInv'
<1>1. /\ requests' = {} /\ answers' \subseteq answers /\ link' \in Links
      /\ UNCHANGED <<phase, backoff, reader, handshake, pending, call, streak>>
      /\ UNCHANGED <<current, own>>
  BY DEF LinkLost, LinkCut, Links, client, history
<1>2. OnWire' \subseteq OnWire
  BY <1>1 DEF OnWire
<1>3. reader' \in BOOLEAN
  BY <1>1 DEF SessionInv, TypeOK
<1>4. TypeOK'
  BY <1>1, <1>3 DEF SessionInv, TypeOK
<1>5. OnceInv'
  BY <1>1, <1>2 DEF SessionInv, OnceInv
<1>6. AnswerFindsCaller' /\ NoAnswerAcrossSessions'
  BY <1>1, <1>2 DEF SessionInv, AnswerFindsCaller, NoAnswerAcrossSessions, OnWire
<1> QED
  BY <1>1, <1>2, <1>4, <1>5, <1>6 DEF SessionInv, PhaseInv
-----------------------------------------------------------------------------
(* Submissions. *)

LEMMA SubmitInv ==
  ASSUME SessionInv, NEW i \in Ids, Submit(i)
  PROVE  SessionInv'
<1>1. /\ i \in Fresh /\ phase \in {"up", "closing"}
      /\ pending' = pending \cup {i}
      /\ requests' \in {requests, requests \cup {i}}
      /\ UNCHANGED <<phase, backoff, reader, handshake, streak, answers, own>>
      /\ Sends
      /\ current' = current \cup {i}
  BY DEF Submit, Register, Written
<1>2. i \notin pending \cup OnWire
  BY <1>1, FreshId
<1>3. OnWire' \subseteq OnWire \cup {i}
  BY <1>1 DEF OnWire
<1>4. /\ call' \in [Ids -> CallStates] /\ call'[i] = "waiting"
      /\ \A k \in Ids : k # i => call'[k] = call[k]
  BY DEF Submit, Register, SessionInv, TypeOK, CallStates
<1>5. reader' \in BOOLEAN /\ link' \in Links
  BY <1>1, SendsTyped DEF SessionInv, TypeOK
<1>6. TypeOK'
  BY <1>1, <1>4, <1>5 DEF SessionInv, TypeOK
<1>7. OnceInv'
  <2>1. \A a \in answers : a.id # i
    BY <1>2 DEF OnWire
  <2>2. \A k \in Ids : call'[k] \in Says => k \notin pending' \cup OnWire'
    BY <1>1, <1>3, <1>4 DEF SessionInv, OnceInv, Says
  <2> QED
    BY <1>1, <2>1, <2>2 DEF SessionInv, OnceInv
<1>8. AnswerFindsCaller'
  BY <1>1, <1>3, <1>4 DEF SessionInv, AnswerFindsCaller, OnWire
<1> QED
  BY <1>1, <1>6, <1>7, <1>8 DEF SessionInv, PhaseInv, NoAnswerAcrossSessions

\* A submission ends in any of the four ways.
LEMMA SubmitEndsInv ==
  ASSUME SessionInv, NEW i \in Ids, SubmitEnds(i)
  PROVE  SessionInv'
<1>1. /\ call' = [call EXCEPT ![i] = "free"]
      /\ pending' \in {pending, pending \ {i}}
      /\ UNCHANGED network
      /\ UNCHANGED <<phase, backoff, reader, handshake>>
      /\ streak' \in {0, Count(streak)}
      /\ own' \in {0, own, Count(own)}
      /\ current' = current \ {i}
  BY DEF SubmitEnds, SubmitAccepted, SubmitRejected, SubmitTimeout, SubmitFails,
     Rejected, network
<1>2. /\ call' \in [Ids -> CallStates] /\ pending' \subseteq Ids
      /\ OnWire' = OnWire /\ OnceInv' /\ AnswerFindsCaller'
  BY <1>1, CallEnds
<1>3. streak' \in 0..MaxStreak /\ own' \in 0..MaxStreak
  <2>1. streak \in 0..MaxStreak /\ own \in 0..MaxStreak /\ 0 \in 0..MaxStreak
    BY BoundAssumption DEF SessionInv, TypeOK
  <2>2. Count(streak) \in 0..MaxStreak /\ Count(own) \in 0..MaxStreak
    BY <2>1, CountTyped
  <2> QED
    BY <1>1, <2>1, <2>2
<1>4. reader' \in BOOLEAN /\ link' \in Links
  BY <1>1 DEF network, SessionInv, TypeOK
<1>5. TypeOK'
  BY <1>1, <1>2, <1>3, <1>4 DEF network, SessionInv, TypeOK
<1> QED
  BY <1>1, <1>2, <1>5 DEF SessionInv, PhaseInv, NoAnswerAcrossSessions, OnWire

\* The connection and the calls stay as they are; only counters change.
LEMMA CountersOnly ==
  ASSUME SessionInv,
         UNCHANGED <<phase, reader, handshake, pending, call, network, current>>,
         backoff' \in 0..MaxBackoff, streak' \in 0..MaxStreak, own' \in 0..MaxStreak
  PROVE  SessionInv'
<1>1. reader' \in BOOLEAN /\ link' \in Links
  BY DEF network, SessionInv, TypeOK
<1>2. TypeOK'
  BY <1>1 DEF network, SessionInv, TypeOK
<1> QED
  BY <1>2 DEF network, SessionInv, PhaseInv, OnceInv, OnWire, AnswerFindsCaller,
     NoAnswerAcrossSessions
\* A report is sent: it is no call.
LEMMA ReportInv ==
  ASSUME SessionInv, Report
  PROVE  SessionInv'
<1>1. /\ UNCHANGED <<phase, backoff, reader, handshake, pending, call, streak>>
      /\ UNCHANGED <<requests, answers, current, own>>
  BY DEF Report, client, history
<1>2. reader' \in BOOLEAN /\ link' \in Links
  BY <1>1, SendsTyped DEF Report, SessionInv, TypeOK
<1>3. TypeOK'
  BY <1>1, <1>2 DEF SessionInv, TypeOK
<1> QED
  BY <1>1, <1>3 DEF SessionInv, PhaseInv, OnceInv, OnWire, AnswerFindsCaller,
     NoAnswerAcrossSessions
-----------------------------------------------------------------------------
LEMMA NextInv == SessionInv /\ [Next]_vars => SessionInv'
<1> SUFFICES ASSUME SessionInv, [Next]_vars PROVE SessionInv'
  OBVIOUS
<1>1. ASSUME NEW i \in Ids, Connect(i) \/ Subscribed(i) PROVE SessionInv'
  BY <1>1, ConnectInv, SubscribedInv
<1>2. CASE Authorized \/ HandshakeRefused \/ HandshakeTimeout
  BY <1>2, HandshakeEnds
<1>3. CASE Teardown
  BY <1>3, TeardownInv
<1>4. CASE ConnectFails
  BY <1>4, LongerTyped, CountersOnly
     DEF ConnectFails, history, SessionInv, TypeOK
<1>5. CASE Receive
  BY <1>5, ReceiveInv
<1>6. CASE ReaderEnds \/ ReaderRaises
  BY <1>6, ReaderEndsInv
<1>7. ASSUME NEW i \in Ids, Submit(i) \/ SubmitEnds(i) PROVE SessionInv'
  BY <1>7, SubmitInv, SubmitEndsInv
<1>8. CASE HealOnRejects
  BY <1>8, BoundAssumption, CountersOnly DEF HealOnRejects, SessionInv, TypeOK
<1>9. ASSUME NEW i \in Ids, NEW says \in Says, PoolAnswers(i, says)
      PROVE  SessionInv'
  BY <1>9, PoolAnswersInv
<1>10. CASE LinkLost \/ LinkCut
  BY <1>10, LinkLostInv
<1>12. CASE Report
  BY <1>12, ReportInv
<1>11. CASE UNCHANGED vars
  BY <1>11, CountersOnly DEF vars, client, history, SessionInv, TypeOK
<1> QED
  BY <1>1, <1>2, <1>3, <1>4, <1>5, <1>6, <1>7, <1>8, <1>9, <1>10, <1>11,
     <1>12 DEF Next, SessionStep

LEMMA SessionInvAlways == Spec => []SessionInv
BY InitInv, NextInv, PTL DEF Spec

\* Every reachable state is well typed: the counters stay within their
\* bounds, and what is registered, on the wire or waited for is a call.
THEOREM TypeCorrect == Spec => []TypeOK
BY SessionInvAlways, PTL DEF SessionInv

\* An answer on the connection to a call somebody waits for finds the call's
\* future in _pending, across any number of teardowns and reconnects.
THEOREM AnswersFindCallers == Spec => []AnswerFindsCaller
BY SessionInvAlways, PTL DEF SessionInv

\* Nothing of an earlier connection is registered or on the wire while a
\* session is being set up, so the handshake reads no stale answer and no
\* answer of the handshake resolves an old submission.
THEOREM NoAnswerCrosses == Spec => []NoAnswerAcrossSessions
BY SessionInvAlways, PTL DEF SessionInv
=============================================================================
