------------------------------ MODULE Attempts ------------------------------
(***************************************************************************)
(* PredictionAttemptCoordinator, the GenerationFence it asks, and the      *)
(* prediction clients it submits to.  Several threads may begin attempts,  *)
(* the prediction engine answers at once or later, once, twice or never,   *)
(* and expireTimeouts ends what takes too long.                            *)
(*                                                                         *)
(* The id of an attempt is its correlation id, made of the target round    *)
(* and the millisecond of the request, so two attempts may share one id.   *)
(* An attempt itself is told apart by its target and its generation.       *)
(*                                                                         *)
(* The two rings of the shared-memory client have no lock: a writer loads  *)
(* the head, fills the slot there and stores the next head, in that order  *)
(* and with the steps of other writers in between.                         *)
(***************************************************************************)
EXTENDS Integers, Sequences, FiniteSets

CONSTANTS
    Targets,    \* target rounds
    Callers,    \* threads that call begin
    Engine,     \* the prediction engine, which writes responses too
    Stamps,     \* milliseconds a request may be made in
    Slots,      \* slots of the request and response rings (256)
    MaxBegins,  \* bound: attempts begun at a target
    MaxAnswers  \* bound: answers of the engine

Clients == {"stub", "ring", "queue", "socket"}
Ids == Targets \X Stamps
Writers == Callers \cup {Engine}
Zero == <<>>    \* a request slot nobody has filled
None == [state |-> "None", gen |-> 0]

VARIABLES
    client,     \* the kind of PredictionClient: stub, ShmPredictionClient
                \* (the ring or the one with SpscQueues), UnixSocketPredictionClient
    open,       \* connected_ of the socket client
    gen,        \* GenerationFence::gen_
    attempts,   \* attempts_, by id: state and generation
    call,       \* begin, by caller: where it is, its id, its generation and
                \* the head of the request ring it has loaded
    requests,   \* outbound_ of the socket client, oldest first
    reqHead, reqTail, reqSlots, \* the request ring, of ids
    asked,      \* the ids the engine knows
    head, tail, \* resp_head and resp_tail of the response ring
    slots,      \* responses: number of the response in each slot, 0 unwritten
    writing,    \* writeResponse, by writer: where it is and the head it loaded
    polling,    \* pollResponseSlot has found the ring not empty
    written,    \* history: responses filled in
    clash,      \* history: a response was written while another one was, or
                \* over one that had not been read
    read,       \* history: responses read from the ring, in order
    answers,    \* answers so far
    applied,    \* history: generations completed, by target, in order
    verdicts    \* history: how often an attempt was completed, timed out or fenced

channel == <<client, open, requests, asked, answers>>
reqRing == <<reqHead, reqTail, reqSlots>>
ring == <<head, tail, slots, writing, polling, written, clash, read>>
book == <<attempts, applied, verdicts>>
vars == <<gen, call, channel, reqRing, ring, book>>

Idle == [pc |-> "idle", id |-> CHOOSE i \in Ids : TRUE, gen |-> 0, at |-> 0]
Off == [pc |-> "off", at |-> 0]

Init ==
    /\ client \in Clients /\ open = (client # "socket")
    /\ gen = [t \in Targets |-> 0]
    /\ attempts = [i \in Ids |-> None]
    /\ call = [c \in Callers |-> Idle]
    /\ requests = <<>> /\ asked = {} /\ answers = 0
    /\ reqHead = 0 /\ reqTail = 0 /\ reqSlots = [s \in 0 .. Slots - 1 |-> Zero]
    /\ head = 0 /\ tail = 0 /\ slots = [s \in 0 .. Slots - 1 |-> 0]
    /\ writing = [w \in Writers |-> Off] /\ polling = FALSE
    /\ written = 0 /\ clash = FALSE /\ read = <<>>
    /\ applied = [t \in Targets |-> <<>>]
    /\ verdicts = [t \in Targets |-> [g \in 1 .. MaxBegins |-> 0]]

-----------------------------------------------------------------------------

\* begin: the fence is bumped first ...
Bump(c, id) ==
    /\ call[c].pc = "idle" /\ gen[id[1]] < MaxBegins
    /\ gen' = [gen EXCEPT ![id[1]] = @ + 1]
    /\ call' = [call EXCEPT ![c] = [pc |-> "insert", id |-> id, gen |-> gen[id[1]] + 1, at |-> 0]]
    /\ UNCHANGED <<channel, reqRing, ring, book>>

\* ... then the record is stored, over one with the same id.
Insert(c) ==
    /\ call[c].pc = "insert"
    /\ attempts' = [attempts EXCEPT ![call[c].id] = [state |-> "InFlight", gen |-> call[c].gen]]
    /\ call' = [call EXCEPT ![c].pc = "submit"]
    /\ UNCHANGED <<gen, channel, reqRing, ring, applied, verdicts>>

\* Mutant: a response of a superseded attempt is taken like any other.
AnyGeneration(id) == TRUE

\* GenerationFence::isCurrent for the record of an id.
IsCurrent(id) == gen[id[1]] = attempts[id].gen

\* What completeLocked asks of a record first.
InFlight(id) == attempts[id].state = "InFlight"

\* An attempt ends in state s.
Ends(ids, s) ==
    /\ attempts' = [i \in Ids |-> IF i \in ids THEN [attempts[i] EXCEPT !.state = s] ELSE attempts[i]]
    /\ verdicts' = [t \in Targets |-> [g \in 1 .. MaxBegins |->
                       verdicts[t][g] + Cardinality({i \in ids : i[1] = t /\ attempts[i].gen = g})]]

\* complete: by correlation id, or by target when the id is unknown.
Complete(id) ==
    LET known == attempts[id].state # "None"
        match == {i \in Ids : IF known THEN i = id ELSE i[1] = id[1] /\ InFlight(i)} IN
    IF \A i \in match : ~InFlight(i) THEN UNCHANGED book
    ELSE \E i \in match :
            IF IsCurrent(i)
            THEN /\ Ends({i}, "Completed")
                 /\ applied' = [applied EXCEPT ![i[1]] = Append(@, attempts[i].gen)]
            ELSE Ends({i}, "Fenced") /\ UNCHANGED applied

\* The index of the slot after s.
NextSlot(s) == (s + 1) % Slots

\* writeResponse: the head is loaded, ...
LoadHead(w) ==
    /\ writing[w].pc = "off"
    /\ writing' = [writing EXCEPT ![w] = [pc |-> "fill", at |-> head]]
    /\ clash' = (clash \/ \E v \in Writers : writing[v].pc # "off")
    /\ UNCHANGED <<head, tail, slots, polling, written, read>>

\* ... the slot there is filled, whether or not it has been read, ...
FillSlot(w) ==
    /\ writing[w].pc = "fill"
    /\ slots' = [slots EXCEPT ![writing[w].at] = written + 1]
    /\ written' = written + 1
    /\ clash' = (clash \/ NextSlot(writing[w].at) = tail)
    /\ writing' = [writing EXCEPT ![w] = [pc |-> "store", at |-> writing[w].at]]
    /\ UNCHANGED <<head, tail, polling, read>>
    /\ UNCHANGED <<gen, call, channel, reqRing, book>>

\* ... and the head after it is stored, wherever the head is by then.
StoreHead(w) ==
    /\ writing[w].pc = "store"
    /\ head' = NextSlot(writing[w].at)
    /\ writing' = [writing EXCEPT ![w] = Off]
    /\ UNCHANGED <<tail, slots, polling, written, clash, read>>
    /\ UNCHANGED <<gen, call, channel, reqRing, book>>

\* The clients that put a request into a ring: the layout's, or an SpscQueue.
Ringed == client \in {"ring", "queue"}

\* A request finds no room, or no connection: begin marks the record of its id
\* Failed, whatever has become of it.
Refuses == \/ Ringed /\ NextSlot(reqHead) = reqTail
           \/ ~open
SubmitFails(c) ==
    /\ call[c].pc = "submit" /\ Refuses
    /\ attempts' = [attempts EXCEPT ![call[c].id].state = "Failed"]
    /\ call' = [call EXCEPT ![c] = Idle]
    /\ UNCHANGED <<gen, channel, reqRing, ring, applied, verdicts>>

\* submit to a ring or a queue: the head is loaded and room found, ...
LoadRequest(c) ==
    /\ call[c].pc = "submit" /\ Ringed /\ ~Refuses
    /\ call' = [call EXCEPT ![c] = [pc |-> "fill", id |-> @.id, gen |-> @.gen, at |-> reqHead]]
    /\ UNCHANGED <<gen, channel, reqRing, ring, book>>

\* ... the slot filled ...
FillRequest(c) ==
    /\ call[c].pc = "fill"
    /\ reqSlots' = [reqSlots EXCEPT ![call[c].at] = call[c].id]
    /\ call' = [call EXCEPT ![c].pc = "store"]
    /\ UNCHANGED <<gen, channel, reqHead, reqTail, ring, book>>

\* A client that answers by itself, unless it is told not to; the queue does not.
MayAnswer == client # "queue" /\ answers < MaxAnswers

\* What submit does after the request is on its way: it returns, or it answers;
\* the ring's client writes the answer to the response ring first.
Submitted(c) ==
    \/ /\ client # "stub"
       /\ call' = [call EXCEPT ![c] = Idle]
       /\ UNCHANGED answers
    \/ /\ MayAnswer
       /\ answers' = answers + 1
       /\ call' = [call EXCEPT ![c].pc = IF client = "ring" THEN "respond" ELSE "complete"]

\* ... and the next head stored.
StoreRequest(c) ==
    /\ call[c].pc = "store"
    /\ reqHead' = NextSlot(call[c].at)
    /\ Submitted(c)
    /\ UNCHANGED <<gen, client, open, requests, asked, reqTail, reqSlots, ring, book>>

\* Keep the newest requests only, as the socket client's outbound_ does.
Queued(id) ==
    LET grown == Append(requests, id) IN
    IF Len(grown) > Slots THEN Tail(grown) ELSE grown

\* submit of the socket client, which holds a lock, and of the stub.
Submit(c) ==
    /\ call[c].pc = "submit" /\ ~Ringed /\ ~Refuses
    /\ requests' = IF client = "socket" THEN Queued(call[c].id) ELSE requests
    /\ Submitted(c)
    /\ UNCHANGED <<gen, client, open, asked, reqRing, ring, book>>

\* The answer of the ring's own client: writeResponse ...
Respond(c) ==
    /\ call[c].pc = "respond"
    /\ LoadHead(c)
    /\ call' = [call EXCEPT ![c].pc = "complete"]
    /\ UNCHANGED <<gen, channel, reqRing, book>>

\* ... and then, as in every client, the handler, which runs complete before
\* submit returns.
Handle(c) ==
    /\ call[c].pc = "complete" /\ writing[c].pc = "off"
    /\ Complete(call[c].id)
    /\ call' = [call EXCEPT ![c] = Idle]
    /\ UNCHANGED <<gen, channel, reqRing, ring>>

\* UnixSocketPredictionClient::connect and disconnect.
Toggle ==
    /\ client = "socket"
    /\ open' = ~open
    /\ UNCHANGED <<gen, call, client, requests, asked, answers, reqRing, ring, book>>

\* The engine fetches a request from the outbound_ of the socket client ...
Fetch ==
    /\ requests # <<>>
    /\ asked' = asked \cup {Head(requests)}
    /\ requests' = Tail(requests)
    /\ UNCHANGED <<gen, call, client, open, answers, reqRing, ring, book>>

\* ... or from the ring (popRequest), what is there by then.
PopRequest ==
    /\ reqHead # reqTail
    /\ asked' = asked \cup ({reqSlots[reqTail]} \ {Zero})
    /\ reqTail' = NextSlot(reqTail)
    /\ UNCHANGED <<gen, call, client, open, requests, answers, reqHead, reqSlots, ring, book>>

\* It answers, any number of times (pushResponse, injectResponse), and perhaps
\* under a correlation id that was not asked for: through the handler, or into
\* the response ring.
Answer(id) ==
    /\ answers < MaxAnswers /\ \E a \in asked : a[1] = id[1]
    /\ answers' = answers + 1
    /\ IF client = "ring" THEN LoadHead(Engine) /\ UNCHANGED book
                          ELSE Complete(id) /\ UNCHANGED ring
    /\ UNCHANGED <<gen, call, client, open, requests, asked, reqRing>>

\* pollResponseSlot: the ring is found not empty ...
Poll ==
    /\ ~polling /\ tail # head
    /\ polling' = TRUE
    /\ UNCHANGED <<gen, call, channel, reqRing, head, tail, slots, writing, written, clash, read, book>>

\* ... and the slot read, mixed (0) with what is being filled in, and passed.
PollResponseSlot ==
    /\ polling /\ polling' = FALSE
    /\ \E n \in {slots[tail]} \cup {0 : w \in {v \in Writers : writing[v] = [pc |-> "fill", at |-> tail]}} :
           read' = Append(read, n)
    /\ tail' = NextSlot(tail)
    /\ UNCHANGED <<gen, call, channel, reqRing, head, slots, writing, written, clash, book>>

\* Mutant: expireTimeouts looks at attempts that were superseded only.
SupersededOnly(ids) == \A i \in ids : InFlight(i) /\ ~IsCurrent(i)

\* What expireTimeouts collects, if that much time has passed for each of them.
TimedOut(ids) == \A i \in ids : InFlight(i)

\* expireTimeouts: any in-flight attempts may be the ones that took too long.
ExpireTimeouts ==
    /\ \E ids \in (SUBSET Ids) \ {{}} : TimedOut(ids) /\ Ends(ids, "TimedOut")
    /\ UNCHANGED <<gen, call, channel, reqRing, ring, applied>>

Begin(c) ==
    \/ \E id \in Ids : Bump(c, id)
    \/ Insert(c)
    \/ SubmitFails(c) \/ LoadRequest(c) \/ FillRequest(c) \/ StoreRequest(c)
    \/ Submit(c) \/ Respond(c) \/ Handle(c)

Next ==
    \/ \E c \in Callers : Begin(c)
    \/ \E w \in Writers : FillSlot(w) \/ StoreHead(w)
    \/ \E id \in Ids : Answer(id)
    \/ Toggle \/ Fetch \/ PopRequest \/ Poll \/ PollResponseSlot \/ ExpireTimeouts

\* The main loop calls expireTimeouts on every round of its loop; nothing
\* obliges the engine to answer.
Fairness == WF_vars(ExpireTimeouts)
Spec == Init /\ [][Next]_vars /\ Fairness

-----------------------------------------------------------------------------

(* The fence: once the answer to an attempt has been applied, an answer to *)
(* an earlier attempt at the same target is not, however late it comes and *)
(* however the threads that begin attempts are interleaved (fencing.hpp).  *)
AppliedInOrder ==
    \A t \in Targets : \A i, j \in DOMAIN applied[t] : i < j => applied[t][i] < applied[t][j]

(* An attempt ends once: repeated answers, an answer after the timeout and *)
(* a timeout after the answer leave the verdict as it is, so the handler   *)
(* hears of each attempt at most once (prediction_attempt.hpp, line 143).  *)
VerdictOnce == \A t \in Targets : \A g \in 1 .. MaxBegins : verdicts[t][g] <= 1

(* The response ring has neither a lock nor a check that it is full. While *)
(* its writers happen to take turns and its reader keeps up, every answer  *)
(* is read once and in order; two answers written at once, or one written  *)
(* over another, and this is over (writeResponse, pollResponseSlot).       *)
InOrderInTurn ==
    ~clash => /\ \A k \in DOMAIN read : read[k] = k
              /\ written = Len(read) + ((head - tail) % Slots)
                               + Cardinality({w \in Writers : writing[w].pc = "store"})

(* Late and repeated answers do no harm, and neither do requests and       *)
(* answers that two threads lose by writing into one slot of a ring.       *)
AnswersSafe == AppliedInOrder /\ VerdictOnce /\ InOrderInTurn

(* No attempt stays in flight for ever: the engine's silence, a refused    *)
(* request and a superseding attempt all end with a verdict or a new       *)
(* attempt under the same id.                                              *)
AttemptEnds == \A i \in Ids : []<>~InFlight(i)

-----------------------------------------------------------------------------
(* The inductive invariant.                                                *)

States == {"None", "InFlight", "Completed", "Fenced", "Failed", "TimedOut"}
Places == {"idle", "insert", "submit", "fill", "store", "respond", "complete"}
TypeOK ==
    /\ gen \in [Targets -> 0 .. MaxBegins]
    /\ attempts \in [Ids -> [state : States, gen : 0 .. MaxBegins]]
    /\ call \in [Callers -> [pc : Places, id : Ids, gen : 0 .. MaxBegins, at : 0 .. Slots - 1]]
    /\ applied \in [Targets -> Seq(0 .. MaxBegins)]
    /\ verdicts \in [Targets -> [1 .. MaxBegins -> Nat]]
    /\ head \in 0 .. Slots - 1 /\ tail \in 0 .. Slots - 1
    /\ reqHead \in 0 .. Slots - 1 /\ clash \in BOOLEAN /\ polling \in BOOLEAN
    /\ writing \in [Writers -> [pc : {"off", "fill", "store"}, at : 0 .. Slots - 1]]
    /\ slots \in [0 .. Slots - 1 -> Nat] /\ written \in Nat /\ read \in Seq(Nat)

\* Attempt g at target t is in flight under id i, or about to be recorded by c.
InFlightAs(i, t, g) == i[1] = t /\ InFlight(i) /\ attempts[i].gen = g
InHand(c, t, g) == call[c].pc = "insert" /\ call[c].id[1] = t /\ call[c].gen = g

\* It was begun, and is neither.
Over(t, g) ==
    /\ g <= gen[t]
    /\ \A i \in Ids : ~InFlightAs(i, t, g)
    /\ \A c \in Callers : ~InHand(c, t, g)

\* An attempt is in one place at most.
Apart(t, g) ==
    /\ \A i, j \in Ids : InFlightAs(i, t, g) /\ InFlightAs(j, t, g) => i = j
    /\ \A c, d \in Callers : InHand(c, t, g) /\ InHand(d, t, g) => c = d
    /\ \A i \in Ids, c \in Callers : ~(InFlightAs(i, t, g) /\ InHand(c, t, g))
    /\ \A i \in Ids : InFlightAs(i, t, g) => g <= gen[t]
    /\ \A c \in Callers : InHand(c, t, g) => g <= gen[t]

\* Only what is over has a verdict or was applied.
WasApplied(t, g) == \E k \in DOMAIN applied[t] : applied[t][k] = g
Closed(t) ==
    /\ \A g \in 1 .. MaxBegins : verdicts[t][g] <= 1 /\ (verdicts[t][g] = 1 => Over(t, g))
    /\ \A g \in 0 .. MaxBegins : WasApplied(t, g) => Over(t, g)

\* Answers that the ring holds, and the slot k after slot s.
Unread == written - Len(read)
Past(s, k) == IF s + k < Slots THEN s + k ELSE s + k - Slots

\* While the writers take turns: at most one of them is writing, at the head;
\* what has been filled in and not been read is in the slots from the tail on.
Storing == \E w \in Writers : writing[w].pc = "store"
InTurn ==
    /\ \A v, w \in Writers : writing[v].pc # "off" /\ writing[w].pc # "off" => v = w
    /\ \A w \in Writers : writing[w].pc # "off" => writing[w].at = head
    /\ Unread \in 0 .. Slots - 1
    /\ IF Storing THEN Unread > 0 /\ head = Past(tail, Unread - 1)
                  ELSE head = Past(tail, Unread)
    /\ \A k \in 0 .. Unread - 1 : slots[Past(tail, k)] = Len(read) + k + 1
    /\ polling => tail # head
    /\ \A k \in DOMAIN read : read[k] = k

IInv ==
    /\ TypeOK /\ (~clash => InTurn) /\ AppliedInOrder /\ VerdictOnce
    /\ \A t \in Targets : Closed(t) /\ \A g \in 0 .. MaxBegins : Apart(t, g)

=============================================================================
