--------------------------- MODULE StratumSession ---------------------------
(***************************************************************************)
(* StratumClient's connection to the pool (stratum_client.py): run_forever *)
(* and _session_once (connect, handshake, teardown, backoff), the RPC      *)
(* layer (_call, _pending, the reader), the submissions that run in the    *)
(* background and outlive a session, and what their outcomes do to the     *)
(* reject streak that arms the auto-heal watchdog.                         *)
(*                                                                         *)
(* A message id names a call from the moment it is made until its outcome  *)
(* is known and no trace of it is left; the code draws ids from a counter  *)
(* that is never reset.                                                    *)
(***************************************************************************)
EXTENDS Naturals, FiniteSets

CONSTANTS Ids,          \* message ids
          None,         \* no message id
          MaxBackoff,   \* bound on the backoff, in doublings of the initial one
          Threshold,    \* cfg.heal_consec_rejects
          MaxStreak     \* bound: the reject streak is not counted beyond it

ASSUME IdAssumption == None \notin Ids
ASSUME BoundAssumption == /\ MaxBackoff \in Nat
                          /\ Threshold \in Nat \ {0}
                          /\ MaxStreak \in Nat
                          /\ Threshold <= MaxStreak

VARIABLES
  phase,      \* where run_forever is
  backoff,    \* its wait before the next connection, log2(wait / initial)
  reader,     \* the reader task runs
  handshake,  \* the id of the call _handshake awaits
  pending,    \* _pending: ids whose future the reader can resolve
  call,       \* per id: what the coroutine that made the call waits for
  streak,     \* _consec_rejects
  \* the connection
  link,       \* what has become of it, see Links
  requests,   \* ids of requests the pool has not answered
  answers,    \* answers the reader has not read: [id, says]
  \* history
  current,    \* ids of submissions made in this session
  own         \* how much of the streak is due to them

client == <<phase, backoff, reader, handshake, pending, call, streak>>
network == <<link, requests, answers>>
history == <<current, own>>
vars == <<client, network, history>>

\* "failed" and "closing" are the teardown, of a session that did not get
\* through the handshake and of one that did.
Phases == {"down", "subscribe", "authorize", "up", "failed", "closing"}
Says == {"yes", "no", "error"}
\* "cut": nothing gets through any more, but neither side has been told (the
\* peer has lost its power, a NAT its state); "doubted": data sent since then
\* is not acknowledged, and the kernel will give up on it; "down": end of
\* stream.
Links == {"up", "cut", "doubted", "down"}
\* "free": no such call; "waiting": its future is unresolved; else resolved.
CallStates == {"free", "waiting"} \cup Says

TypeOK ==
  /\ phase \in Phases
  /\ backoff \in 0..MaxBackoff
  /\ reader \in BOOLEAN
  /\ handshake \in Ids \cup {None}
  /\ pending \subseteq Ids
  /\ call \in [Ids -> CallStates]
  /\ streak \in 0..MaxStreak
  /\ link \in Links
  /\ requests \subseteq Ids
  /\ answers \subseteq [id : Ids, says : Says]
  /\ current \subseteq Ids
  /\ own \in 0..MaxStreak

Init ==
  /\ phase = "down"
  /\ backoff = 0
  /\ reader = FALSE
  /\ handshake = None
  /\ pending = {}
  /\ call = [i \in Ids |-> "free"]
  /\ streak = 0
  /\ link = "down"
  /\ requests = {}
  /\ answers = {}
  /\ current = {}
  /\ own = 0

-----------------------------------------------------------------------------
(* The RPC layer. *)

\* Ids with no trace left.
Fresh == {i \in Ids : /\ call[i] = "free"
                      /\ i \notin pending \cup requests
                      /\ \A a \in answers : a.id # i}

\* _call i: register the future, then write the request. It gets to the pool
\* if the connection is up.
Register(i) ==
  /\ pending' = pending \cup {i}
  /\ call' = [call EXCEPT ![i] = "waiting"]

Sends == link' = IF link = "cut" THEN "doubted" ELSE link
Written(i) == /\ requests' = IF link = "up" THEN requests \cup {i} ELSE requests
              /\ Sends

\* The reader reads an answer and resolves the future, if the id is pending
\* and nobody has given up on it.
Receive ==
  /\ reader
  /\ \E a \in answers :
       /\ answers' = answers \ {a}
       /\ pending' = pending \ {a.id}
       /\ call' = IF a.id \in pending /\ call[a.id] = "waiting"
                    THEN [call EXCEPT ![a.id] = a.says] ELSE call
  /\ UNCHANGED <<phase, backoff, reader, handshake, streak, link, requests,
                 history>>

\* End of stream: the reader raises ConnectionResetError. _session_once
\* notices at once when the session is up; in the handshake it is waiting for
\* something else.
ReaderEnds ==
  /\ reader
  /\ link = "down"
  /\ answers = {}
  /\ reader' = FALSE
  /\ phase' = IF phase = "up" THEN "closing" ELSE phase
  /\ UNCHANGED <<backoff, handshake, pending, call, streak, network, history>>

\* So it does, the connection being as it was, on a line it cannot take: one
\* too long for its buffer, or JSON that is no message.
ReaderRaises ==
  /\ reader
  /\ link # "down"
  /\ reader' = FALSE
  /\ phase' = IF phase = "up" THEN "closing" ELSE phase
  /\ UNCHANGED <<backoff, handshake, pending, call, streak, network, history>>

-----------------------------------------------------------------------------
(* run_forever and _session_once. *)

\* Mutant of Longer: the wait grows without bound.
LongerUncapped == backoff + 1

\* The wait doubles, up to cfg.reconnect_max_s.
Longer == IF backoff < MaxBackoff THEN backoff + 1 ELSE backoff

\* Mutant of Connect: the table is cleared when a session begins, after the
\* first call of it.
ConnectClearsLate(i) ==
  /\ phase = "down"
  /\ i \in Fresh
  /\ phase' = "subscribe"
  /\ reader' = TRUE
  /\ link' = "up"
  /\ handshake' = i
  /\ pending' = {}
  /\ call' = [call EXCEPT ![i] = "waiting"]
  /\ requests' = {i}
  /\ answers' = {}
  /\ UNCHANGED <<backoff, streak, history>>

\* The wait is over and the connection is made; mining.subscribe is sent.
Connect(i) ==
  /\ phase = "down"
  /\ i \in Fresh
  /\ phase' = "subscribe"
  /\ reader' = TRUE
  /\ link' = "up"
  /\ handshake' = i
  /\ Register(i)
  /\ requests' = {i}
  /\ answers' = {}
  /\ UNCHANGED <<backoff, streak, history>>

\* The connection is refused.
ConnectFails ==
  /\ phase = "down"
  /\ backoff' = Longer
  /\ UNCHANGED <<phase, reader, handshake, pending, call, streak, network,
                 history>>

\* The handshake call has its answer; the id is not needed any more.
Answered(says) ==
  /\ handshake # None
  /\ call[handshake] \in says

\* mining.subscribe succeeded: mining.authorize is sent.
Subscribed(i) ==
  /\ phase = "subscribe"
  /\ Answered({"yes"})
  /\ i \in Fresh
  /\ phase' = "authorize"
  /\ handshake' = i
  /\ pending' = pending \cup {i}
  /\ call' = [call EXCEPT ![handshake] = "free", ![i] = "waiting"]
  /\ Written(i)
  /\ UNCHANGED <<backoff, reader, streak, answers, history>>

\* mining.authorize succeeded: the heal window is reset and the solver loop,
\* the metrics loop and the watchdog start. If the reader has ended by now,
\* they are cancelled before they have run.
Authorized ==
  /\ phase = "authorize"
  /\ Answered({"yes"})
  /\ phase' = IF reader THEN "up" ELSE "failed"
  /\ handshake' = None
  /\ call' = [call EXCEPT ![handshake] = "free"]
  /\ streak' = 0
  /\ own' = 0
  /\ current' = {}
  /\ UNCHANGED <<backoff, reader, pending, network>>

\* The pool refuses subscribe or authorize.
HandshakeRefused ==
  /\ phase \in {"subscribe", "authorize"}
  /\ Answered({"no", "error"})
  /\ phase' = "failed"
  /\ call' = [call EXCEPT ![handshake] = "free"]
  /\ handshake' = None
  /\ UNCHANGED <<backoff, reader, pending, streak, network, history>>

\* No answer to subscribe or authorize within 30 s, or the request could not
\* be sent.
HandshakeTimeout ==
  /\ phase \in {"subscribe", "authorize"}
  /\ Answered({"waiting"})
  /\ phase' = "failed"
  /\ pending' = pending \ {handshake}
  /\ call' = [call EXCEPT ![handshake] = "free"]
  /\ handshake' = None
  /\ UNCHANGED <<backoff, reader, streak, network, history>>

\* Mutant of Teardown: _pending survives the session.
TeardownKeepsPending ==
  /\ phase \in {"failed", "closing"}
  /\ phase' = "down"
  /\ reader' = FALSE
  /\ backoff' = Longer
  /\ link' = "down"
  /\ requests' = {}
  /\ answers' = {}
  /\ UNCHANGED <<handshake, pending, call, streak, history>>

\* The rest of the teardown: the tasks of the session are cancelled, the
\* connection is closed, _pending is cleared. The futures in it stay as they
\* are, and background submissions go on waiting for them. run_forever sees
\* an exception, never a normal return. (That closing ends is taken for
\* granted: wait_closed has no timeout of its own, the kernel's apply.)
Teardown ==
  /\ phase \in {"failed", "closing"}
  /\ phase' = "down"
  /\ reader' = FALSE
  /\ pending' = {}
  /\ backoff' = Longer
  /\ link' = "down"
  /\ requests' = {}
  /\ answers' = {}
  /\ UNCHANGED <<handshake, call, streak, history>>

-----------------------------------------------------------------------------
(* _submit_share, in the background. *)

\* A share is submitted; the solver loop may still do so until the teardown
\* has cancelled it.
Submit(i) ==
  /\ phase \in {"up", "closing"}
  /\ i \in Fresh
  /\ Register(i)
  /\ Written(i)
  /\ current' = current \cup {i}
  /\ UNCHANGED <<phase, backoff, reader, handshake, streak, answers, own>>

IsSubmit(i) == call[i] # "free" /\ i # handshake

Count(n) == IF n < MaxStreak THEN n + 1 ELSE n

\* The share was not accepted, or nobody knows: one more reject.
Rejected(i) ==
  /\ streak' = Count(streak)
  /\ own' = IF i \in current THEN Count(own) ELSE own
  /\ call' = [call EXCEPT ![i] = "free"]
  /\ current' = current \ {i}

\* The pool accepted: the streak ends.
SubmitAccepted(i) ==
  /\ IsSubmit(i)
  /\ call[i] = "yes"
  /\ streak' = 0
  /\ own' = 0
  /\ call' = [call EXCEPT ![i] = "free"]
  /\ current' = current \ {i}
  /\ UNCHANGED <<phase, backoff, reader, handshake, pending, network>>

SubmitRejected(i) ==
  /\ IsSubmit(i)
  /\ call[i] \in {"no", "error"}
  /\ Rejected(i)
  /\ UNCHANGED <<phase, backoff, reader, handshake, pending, network>>

\* Mutant of SubmitTimeout: the timeout is tied to the entry in _pending.
SubmitTimeoutIfPending(i) ==
  /\ IsSubmit(i)
  /\ call[i] = "waiting"
  /\ i \in pending
  /\ pending' = pending \ {i}
  /\ Rejected(i)
  /\ UNCHANGED <<phase, backoff, reader, handshake, network>>

\* No answer within 30 s; the entry in _pending may be long gone.
SubmitTimeout(i) ==
  /\ IsSubmit(i)
  /\ call[i] = "waiting"
  /\ pending' = pending \ {i}
  /\ Rejected(i)
  /\ UNCHANGED <<phase, backoff, reader, handshake, network>>

\* Writing to a closing connection raises. The id stays in _pending.
SubmitFails(i) ==
  /\ IsSubmit(i)
  /\ call[i] = "waiting"
  /\ link = "down"
  /\ i \in pending
  /\ Rejected(i)
  /\ UNCHANGED <<phase, backoff, reader, handshake, pending, network>>

\* The watchdog's trigger B: it bounces the solver and clears the streak.
HealOnRejects ==
  /\ phase = "up"
  /\ streak >= Threshold
  /\ streak' = 0
  /\ own' = 0
  /\ UNCHANGED <<phase, backoff, reader, handshake, pending, call, network,
                 current>>

\* Mutant of Report: there is nothing to report while no share is submitted.
ReportIfShares ==
  /\ phase \in {"up", "closing"}
  /\ \E i \in Ids : IsSubmit(i)
  /\ Sends
  /\ UNCHANGED <<client, requests, answers, history>>

\* _metrics_loop sends a report every 60 s, with no id and no wait for an
\* answer; that one cannot be sent changes nothing.
Report ==
  /\ phase \in {"up", "closing"}
  /\ Sends
  /\ UNCHANGED <<client, requests, answers, history>>

-----------------------------------------------------------------------------
(* The pool and the network. *)

\* The pool answers a request; answers come in any order.
PoolAnswers(i, says) ==
  /\ link = "up"
  /\ i \in requests
  /\ requests' = requests \ {i}
  /\ answers' = answers \cup {[id |-> i, says |-> says]}
  /\ UNCHANGED <<client, link, history>>

\* The connection is lost, with the requests and the answers still on it: the
\* pool closes it, or data that was sent is given up, or refused by a peer
\* that has restarted.
LinkLost ==
  /\ link \in {"up", "doubted"}
  /\ link' = "down"
  /\ requests' = {}
  /\ answers' = {}
  /\ UNCHANGED <<client, history>>

\* It is lost without a trace. What the reader has in its buffer stays; a
\* request under way may be unacknowledged.
LinkCut ==
  /\ link = "up"
  /\ link' \in IF requests = {} THEN {"cut"} ELSE {"cut", "doubted"}
  /\ requests' = {}
  /\ answers' \in SUBSET answers
  /\ UNCHANGED <<client, history>>

GivesUp == link = "doubted" /\ LinkLost

-----------------------------------------------------------------------------
SessionStep ==
  \/ \E i \in Ids : Connect(i) \/ Subscribed(i)
  \/ Authorized
  \/ HandshakeRefused
  \/ HandshakeTimeout
  \/ Teardown

SubmitEnds(i) == \/ SubmitAccepted(i)
                 \/ SubmitRejected(i)
                 \/ SubmitTimeout(i)
                 \/ SubmitFails(i)

Next ==
  \/ SessionStep
  \/ ConnectFails
  \/ Receive
  \/ ReaderEnds
  \/ ReaderRaises
  \/ \E i \in Ids : Submit(i) \/ SubmitEnds(i)
  \/ Report
  \/ HealOnRejects
  \/ \E i \in Ids, says \in Says : PoolAnswers(i, says)
  \/ LinkLost
  \/ LinkCut

Spec == Init /\ [][Next]_vars

\* Coroutines whose await is over run, timeouts expire, and the kernel gives
\* up on data that is never acknowledged.
Fairness == /\ WF_vars(SessionStep)
            /\ WF_vars(Receive)
            /\ WF_vars(ReaderEnds)
            /\ WF_vars(Report)
            /\ WF_vars(GivesUp)
            /\ \A i \in Ids : WF_vars(SubmitEnds(i))
FairSpec == Spec /\ Fairness

-----------------------------------------------------------------------------
(* Properties. *)

\* An answer on its way to a caller that still waits finds its future: as
\* long as the request or the answer is on the current connection, the id is
\* registered. (Teardown clears the table only after the reader is gone, and
\* a new session starts with nobody of the old one in it.)
AnswerFindsCaller ==
  \A i \in Ids :
    /\ call[i] = "waiting"
    /\ i \in requests \cup {a.id : a \in answers}
    => i \in pending

\* An answer read on a connection never resolves a call made on an earlier
\* one: whatever is registered or on the wire while a session is being set up
\* belongs to it.
NoAnswerAcrossSessions ==
  phase \in {"subscribe", "authorize"} =>
    /\ pending \subseteq {handshake}
    /\ requests \cup {a.id : a \in answers} \subseteq {handshake}

\* Every submission ends: accepted, or counted as a reject.
EverySubmitEnds == \A i \in Ids : IsSubmit(i) ~> ~IsSubmit(i)

\* The pool behaves: from now on it can be reached, keeps the connection, sends
\* what the reader takes and says yes to what it is asked.
PoolMisbehaves == \/ ConnectFails
                  \/ ReaderRaises
                  \/ link = "up" /\ LinkLost
                  \/ LinkCut
                  \/ \E i \in Ids : PoolAnswers(i, "no") \/ PoolAnswers(i, "error")
PoolBehaves ==
  /\ <>[][~PoolMisbehaves]_vars
  /\ \A i \in Ids : WF_vars(PoolAnswers(i, "yes"))
  \* the handshake is not slower than the timeout of its calls
  /\ <>[][link = "up" /\ reader => ~HandshakeTimeout]_vars

\* Once the pool behaves the miner gets back into a session and stays there,
\* whatever state the earlier connections were lost in; a miner that finds no
\* share notices a connection that is cut all the same.
Recovers == PoolBehaves => <>[](phase = "up" /\ link = "up")

\* "A reconnect (e.g. after a pool restart) must not count pre-reconnect
\* silence/rejects" (stratum_client.py:214-215): when trigger B fires, the
\* rejects of this session alone reach the threshold.
TriggerBIsFresh == streak >= Threshold => own >= Threshold
=============================================================================
