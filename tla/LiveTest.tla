------------------------------- MODULE LiveTest -------------------------------
(***************************************************************************)
(* The live socket test (livetest.c): the main thread starts a chain of    *)
(* relay threads in its own process, sends one message through them over   *)
(* real sockets, waits with timeouts, and then judges what the threads     *)
(* left in their contexts. All threads share the policy gate, the contexts *)
(* and the captured bytes, and nothing is locked: a thread writes one      *)
(* field of its context in each step, in the order of the source, and main *)
(* reads one field in each step.                                           *)
(*                                                                         *)
(* The code has three relays. Relays are 1..N, relay N is the exit, and    *)
(* the client dials relay 1. Ciphers are ideal, as in OnionPath: what a    *)
(* relay receives in full it can open.                                     *)
(***************************************************************************)
EXTENDS NetPolicy

CONSTANTS N, RelayHost

ASSUME ChainAssumption == N \in Nat \ {0} /\ RelayHost \in Loopback \cap Literal

VARIABLES
  saved,      \* the mode on entry
  main,       \* where livetest_run_all is
  at,         \* the relay whose field it reads next
  failed,     \* g_fail > 0
  relay,      \* where each relay_thread is
  ready, done, peelRc, isExit, gotPayload,  \* its RelayCtx
  bytes,      \* g_cap: the bytes it captured from its link,
  cap,        \* and how many it says they are
  link,       \* the connection to it and what was written there
  seen,       \* relay 1's replay window holds the message's id
  listening,  \* its listener is open
  peeled      \* history: the relays whose ox_peel returned OX_OK

ctx == <<ready, done, peelRc, isExit, gotPayload>>

wires == <<bytes, cap, link, listening>>

threads == <<relay, ctx, wires, peeled>>

mainVars == <<saved, main, at, failed>>

testVars == <<policyVars, mainVars, threads, seen>>

Relays == 1 .. N

\* transport_dial, once it was permitted, and the write that follows.
LinkStates == {"none", "broken", "envelope"}

\* How much of the envelope a relay has.
Captures == {"none", "short", "full"}

-----------------------------------------------------------------------------
TestInit ==
  /\ \E privacy \in BOOLEAN : InitFromEnv(NoFlag, privacy)
  /\ saved = mode
  /\ main = "start"
  /\ at = 1
  /\ failed = FALSE
  /\ relay = [i \in Relays |-> "none"]
  /\ ready = [i \in Relays |-> FALSE]
  /\ done = [i \in Relays |-> FALSE]
  /\ peelRc = [i \in Relays |-> "ok"]          \* memset: OX_OK is 0
  /\ isExit = [i \in Relays |-> FALSE]
  /\ gotPayload = [i \in Relays |-> FALSE]
  /\ bytes = [i \in Relays |-> "none"]
  /\ cap = [i \in Relays |-> "none"]
  /\ link = [i \in Relays |-> "none"]
  /\ seen = FALSE
  /\ listening = [i \in Relays |-> FALSE]
  /\ peeled = {}

-----------------------------------------------------------------------------
\* relay_thread i goes on from one place to the next.
Moves(i, from, to) == relay[i] = from /\ relay' = [relay EXCEPT ![i] = to]

\* It listens behind the gate, or cannot.
Listen(i) ==
  \/ /\ Moves(i, "listen", "announce")
     /\ AuthorizeListen(mode) = "ok"
     /\ listening' = [listening EXCEPT ![i] = TRUE]
     /\ UNCHANGED <<policyVars, mainVars, ctx, bytes, cap, link, seen, peeled>>
  \/ /\ Moves(i, "listen", "unheard")
     /\ counters' = IF AuthorizeListen(mode) = "ok" THEN counters
                    ELSE [counters EXCEPT !.listens_denied = @ + 1]
     /\ UNCHANGED <<mode, validated, proxy, requested, mainVars, ctx, wires, seen, peeled>>

Announce(i) ==
  /\ Moves(i, "announce", "accept")
  /\ ready' = [ready EXCEPT ![i] = TRUE]
  /\ UNCHANGED <<policyVars, mainVars, done, peelRc, isExit, gotPayload, wires, seen, peeled>>

\* It accepts the one connection it serves; accept has no timeout.
Accept(i) ==
  /\ Moves(i, "accept", "receive")
  /\ link[i] # "none"
  /\ UNCHANGED <<policyVars, mainVars, ctx, wires, seen, peeled>>

\* accept fails, and the listener is closed.
AcceptFails(i) ==
  /\ Moves(i, "accept", "unmet")
  /\ listening' = [listening EXCEPT ![i] = FALSE]
  /\ UNCHANGED <<policyVars, mainVars, ctx, bytes, cap, link, seen, peeled>>

\* A thread that could not listen or accept says first that it is done ...
GiveUp(i) ==
  /\ relay[i] \in {"unheard", "unmet"} /\ ~ done[i]
  /\ done' = [done EXCEPT ![i] = TRUE]
  /\ UNCHANGED <<policyVars, mainVars, relay, ready, peelRc, isExit, gotPayload, wires, seen, peeled>>

\* ... and then, while main may be reading already, why.
NoteFailure(i) ==
  /\ relay[i] \in {"unheard", "unmet"} /\ done[i]
  /\ peelRc' = [peelRc EXCEPT ![i] = IF relay[i] = "unheard" THEN "no listener" ELSE "no connection"]
  /\ relay' = [relay EXCEPT ![i] = "ended"]
  /\ UNCHANGED <<policyVars, mainVars, ready, done, isExit, gotPayload, wires, seen, peeled>>

\* One transport_recv_raw: all of the envelope, a part of it, or nothing.
Receive(i) ==
  /\ Moves(i, "receive", "measure")
  /\ \E c \in Captures :
       /\ c = "full" => link[i] = "envelope"
       /\ bytes' = [bytes EXCEPT ![i] = c]
  /\ UNCHANGED <<policyVars, mainVars, ctx, cap, link, listening, seen, peeled>>

Measure(i) ==
  /\ Moves(i, "measure", "open")
  /\ cap' = [cap EXCEPT ![i] = bytes[i]]
  /\ UNCHANGED <<policyVars, mainVars, ctx, bytes, link, listening, seen, peeled>>

\* Seeded fault: what was captured is forwarded before it is peeled.
OpenForwards(i) ==
  /\ Moves(i, "open", IF i = N THEN "lookup" ELSE "authorize")
  /\ cap[i] = "full"
  /\ UNCHANGED <<policyVars, mainVars, ctx, wires, seen, peeled>>

\* Too little for an envelope ends the thread's work; a whole one opens.
Open(i) ==
  \/ /\ Moves(i, "open", "lookup")
     /\ cap[i] = "full"
     /\ UNCHANGED <<policyVars, mainVars, ctx, wires, seen, peeled>>
  \/ /\ Moves(i, "open", "close")
     /\ cap[i] # "full"
     /\ peelRc' = [peelRc EXCEPT ![i] = cap[i]]
     /\ UNCHANGED <<policyVars, mainVars, ready, done, isExit, gotPayload, wires, seen, peeled>>

\* ox_peel looks the id up in the window of the context. It is new to every relay
\* but perhaps the first, whose window main uses too.
Lookup(i) ==
  /\ Moves(i, "lookup", IF i = 1 /\ seen THEN "replayed" ELSE "record")
  /\ UNCHANGED <<policyVars, mainVars, ctx, wires, seen, peeled>>

\* It notes the id, whatever main has noted since, and returns OX_OK.
Record(i) ==
  /\ Moves(i, "record", "result")
  /\ seen' = (seen \/ i = 1)
  /\ peeled' = peeled \cup {i}
  /\ UNCHANGED <<policyVars, mainVars, ctx, wires>>

\* Its result goes into the context ...
Result(i) ==
  /\ \/ Moves(i, "result", "flag") /\ peelRc' = [peelRc EXCEPT ![i] = "ok"]
     \/ Moves(i, "replayed", "close") /\ peelRc' = [peelRc EXCEPT ![i] = "replay"]
  /\ UNCHANGED <<policyVars, mainVars, ready, done, isExit, gotPayload, wires, seen, peeled>>

\* ... then whether this is the exit ...
Flag(i) ==
  /\ Moves(i, "flag", IF i = N THEN "payload" ELSE "authorize")
  /\ isExit' = [isExit EXCEPT ![i] = (i = N)]
  /\ UNCHANGED <<policyVars, mainVars, ready, done, peelRc, gotPayload, wires, seen, peeled>>

\* ... and last the payload: its bytes are there before their number, which main
\* looks at first.
Payload(i) ==
  /\ Moves(i, "payload", "close")
  /\ gotPayload' = [gotPayload EXCEPT ![i] = TRUE]
  /\ UNCHANGED <<policyVars, mainVars, ready, done, peelRc, isExit, wires, seen, peeled>>

\* Seeded fault: the thread sets done before it forwards.
AuthorizeDoneEarly(i) ==
  /\ Moves(i, "authorize", "forward")
  /\ counters' = DialCounters(counters, RelayHost, FALSE)
  /\ done' = [done EXCEPT ![i] = TRUE]
  /\ UNCHANGED <<mode, validated, proxy, requested, mainVars, ready, peelRc, isExit, gotPayload,
                 wires, seen, peeled>>

\* transport_dial of the next relay: the gates read the mode ...
Authorize(i) ==
  /\ Moves(i, "authorize", IF DialPermitted(RelayHost, FALSE) THEN "forward" ELSE "close")
  /\ counters' = DialCounters(counters, RelayHost, FALSE)
  /\ UNCHANGED <<mode, validated, proxy, requested, mainVars, ctx, wires, seen, peeled>>

\* ... and then the socket is made, and the rest of the onion written to it.
Forward(i) ==
  /\ Moves(i, "forward", "close")
  /\ \E state \in IF listening[i + 1] THEN LinkStates ELSE {"none"} :
       link' = [link EXCEPT ![i + 1] = state]
  /\ UNCHANGED <<policyVars, mainVars, ctx, bytes, cap, listening, seen, peeled>>

\* out: both sockets are closed ...
CloseBoth(i) ==
  /\ Moves(i, "close", "closed")
  /\ listening' = [listening EXCEPT ![i] = FALSE]
  /\ UNCHANGED <<policyVars, mainVars, ctx, bytes, cap, link, seen, peeled>>

\* ... and done is set last.
Finish(i) ==
  /\ Moves(i, "closed", "ended")
  /\ done' = [done EXCEPT ![i] = TRUE]
  /\ UNCHANGED <<policyVars, mainVars, ready, peelRc, isExit, gotPayload, wires, seen, peeled>>

-----------------------------------------------------------------------------
\* livetest_run_all. The relay role is entered whatever the mode was.
MainStart ==
  /\ main = "start"
  /\ saved' = mode
  /\ SetMode("relay")
  /\ relay' = [i \in Relays |-> "listen"]
  /\ main' = "ready"
  /\ UNCHANGED <<proxy, requested, counters, at, failed, ctx, wires, seen, peeled>>

Check(holds) == failed' = (failed \/ ~ holds)

\* Until all are ready, or 2 s have passed. The flags are never taken back, so
\* reading them in turn says what reading them at once would say of the last
\* moment, or of one on the way.
MainReady ==
  /\ main = "ready"
  /\ main' = "dial"
  /\ Check(\A i \in Relays : ready[i])
  /\ UNCHANGED <<policyVars, saved, at, threads, seen>>

\* The client's dial and airbchan_send; a failed dial skips all checks.
MainSend ==
  /\ main = "dial"
  /\ counters' = DialCounters(counters, RelayHost, FALSE)
  /\ \E state \in IF listening[1] /\ DialPermitted(RelayHost, FALSE)
                  THEN LinkStates ELSE {"none"} :
       /\ link' = [link EXCEPT ![1] = state]
       /\ Check(state = "envelope")
       /\ main' = IF state = "none" THEN "join" ELSE "wait"
  /\ UNCHANGED <<mode, validated, proxy, requested, saved, at, relay, ctx, bytes, cap, listening,
                 seen, peeled>>

\* Seeded fault: the wait has no limit.
MainWaitForever ==
  /\ main = "wait"
  /\ \A i \in Relays : done[i]
  /\ main' = "codes"
  /\ UNCHANGED <<policyVars, saved, at, failed, threads, seen>>

\* Until all are done, or 5 s have passed: nothing is decided here.
MainWait ==
  /\ main = "wait"
  /\ main' = "codes"
  /\ UNCHANGED <<policyVars, saved, at, failed, threads, seen>>

\* Main reads one field of each relay in turn, with the threads at work between
\* two of its readings.
ReadEach(place, next, holds) ==
  /\ main = place
  /\ Check(holds)
  /\ IF at = N THEN main' = next /\ at' = 1 ELSE main' = main /\ at' = at + 1
  /\ UNCHANGED <<policyVars, saved, threads, seen>>

MainCodes == ReadEach("codes", "flags", peelRc[at] = "ok")

MainFlags == ReadEach("flags", "payload", isExit[at] <=> at = N)

\* Seeded fault: the exit's flag is taken for its payload.
MainPayloadTrusting ==
  /\ main = "payload"
  /\ main' = "links"
  /\ Check(isExit[N])
  /\ UNCHANGED <<policyVars, saved, at, threads, seen>>

MainPayload ==
  /\ main = "payload"
  /\ main' = "links"
  /\ Check(gotPayload[N])
  /\ UNCHANGED <<policyVars, saved, at, threads, seen>>

\* Every link carried the constant envelope.
MainLinks == ReadEach("links", "reopen", cap[at] = "full")

\* The captured frame is opened again, if all its bytes are there, whether or
\* not the thread has noted their number ...
MainReopen ==
  /\ main = "reopen"
  /\ main' = IF bytes[1] = "full" THEN "lookup" ELSE "privacy"
  /\ Check(bytes[1] = "full")
  /\ UNCHANGED <<policyVars, saved, at, threads, seen>>

\* ... and presented to relay 1's window, which must hold its id ...
MainLookup ==
  /\ main = "lookup"
  /\ main' = IF seen THEN "privacy" ELSE "record"
  /\ Check(seen)
  /\ UNCHANGED <<policyVars, saved, at, threads, seen>>

\* ... and else notes it, so that the relay may refuse its own message.
MainRecord ==
  /\ main = "record"
  /\ main' = "privacy"
  /\ seen' = TRUE
  /\ UNCHANGED <<policyVars, saved, at, failed, threads>>

\* Privacy mode, in which transport_send_frame must refuse ...
MainPrivacy ==
  /\ main = "privacy"
  /\ main' = "refused"
  /\ SetMode("privacy")
  /\ UNCHANGED <<proxy, requested, counters, saved, at, failed, threads, seen>>

\* ... and back.
MainRefused ==
  /\ main = "refused"
  /\ main' = "join"
  /\ Check(mode = "privacy")
  /\ SetMode("relay")
  /\ UNCHANGED <<proxy, requested, counters, saved, at, threads, seen>>

\* Seeded fault: the mode is left as it is.
MainJoinKeepsMode ==
  /\ main = "join"
  /\ main' = "returned"
  /\ UNCHANGED <<policyVars, saved, at, failed, threads, seen>>

\* Up to 2 s for each thread, then the saved mode again.
MainJoin ==
  /\ main = "join"
  /\ main' = "returned"
  /\ SetMode(saved)
  /\ UNCHANGED <<proxy, requested, counters, saved, at, failed, threads, seen>>

\* The process ends with main, whatever the threads are doing.
Returned == main = "returned" /\ UNCHANGED testVars

Relay(i) ==
  \/ Listen(i) \/ Announce(i) \/ Accept(i) \/ AcceptFails(i) \/ GiveUp(i) \/ NoteFailure(i)
  \/ Receive(i) \/ Measure(i) \/ Open(i) \/ Lookup(i) \/ Record(i) \/ Result(i) \/ Flag(i)
  \/ Payload(i) \/ Authorize(i) \/ Forward(i) \/ CloseBoth(i) \/ Finish(i)

MainStep ==
  \/ MainStart \/ MainReady \/ MainSend \/ MainWait \/ MainCodes \/ MainFlags \/ MainPayload
  \/ MainLinks \/ MainReopen \/ MainLookup \/ MainRecord \/ MainPrivacy \/ MainRefused \/ MainJoin

TestNext == MainStep \/ (\E i \in Relays : Relay(i)) \/ Returned

TestSpec == TestInit /\ [][TestNext]_testVars /\ WF_testVars(MainStep)

-----------------------------------------------------------------------------
MainPlaces ==
  {"start", "ready", "dial", "wait", "codes", "flags", "payload", "links", "reopen", "lookup",
   "record", "privacy", "refused", "join", "returned"}

Places ==
  {"none", "listen", "announce", "accept", "unheard", "unmet", "receive", "measure", "open",
   "lookup", "record", "replayed", "result", "flag", "payload", "authorize", "forward", "close",
   "closed", "ended"}

TestTypes ==
  /\ mode \in Modes /\ saved \in Modes /\ counters \in Counters
  /\ main \in MainPlaces /\ at \in Relays
  /\ failed \in BOOLEAN /\ seen \in BOOLEAN
  /\ relay \in [Relays -> Places]
  /\ ready \in [Relays -> BOOLEAN] /\ done \in [Relays -> BOOLEAN]
  /\ isExit \in [Relays -> BOOLEAN] /\ gotPayload \in [Relays -> BOOLEAN]
  /\ listening \in [Relays -> BOOLEAN]
  /\ peelRc \in [Relays -> Captures \cup {"ok", "no listener", "no connection", "replay"}]
  /\ bytes \in [Relays -> Captures] /\ cap \in [Relays -> Captures]
  /\ link \in [Relays -> LinkStates]
  /\ peeled \subseteq Relays

\* The verdict is sound although main reads field after field of contexts that
\* threads may still be filling, and although a context starts as one of a
\* relay that peeled (livetest.c:155): the test passes only if every relay
\* peeled its layer and the payload came out. A relay that has set done neither
\* listens nor forwards nor peels any more; all it may still write is the code
\* of its failure (livetest.c:68, 73). The code of a thread that has ended is
\* true, and no relay peels before the one in front of it has.
PassedMeansDelivered ==
  /\ main = "returned" /\ ~ failed => peeled = Relays /\ gotPayload[N]
  /\ \A i \in Relays :
       done[i] => relay[i] \in {"unheard", "unmet", "ended"} /\ ~ listening[i]
  /\ \A i \in Relays : relay[i] = "ended" /\ peelRc[i] = "ok" => i \in peeled
  /\ \A i \in peeled : 1 .. i \subseteq peeled

\* No accept without a connection and no hung thread keeps the main thread, and
\* it leaves the mode as it found it.
MainReturns == <>(main = "returned" /\ mode = IF requested THEN "privacy" ELSE "direct")
=============================================================================
