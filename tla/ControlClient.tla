---------------------------- MODULE ControlClient ----------------------------
(***************************************************************************)
(* Request and response correlation of the harness: ControlClient of        *)
(* harness/vtp1_harness/session.py, in front of a conforming device whose   *)
(* response path is LoopbackTransport's (transport.py, _control_write and   *)
(* _answer).  A request is written, travels, is answered in the device's    *)
(* own time, and the answer waits in the host until the callback runs; a    *)
(* caller gives up when it likes.  The clock tells any two events apart.    *)
(***************************************************************************)
EXTENDS Integers, Sequences, FiniteSets, SequencesExt

CONSTANTS
    Requests,        \* bound: how many requests a run writes
    Tags,            \* the 256 values of a tag
    Pairs,           \* bound: how often a check pipelines a second request
    Losses           \* bound: how many callers give up or are refused their write

\* An answer is never as late as the tags are many.
ASSUME ClientAssumption ==
    Requests \in Nat /\ Tags \in Nat /\ Pairs \in Nat /\ Losses \in Nat /\ Losses + 1 < Tags

VARIABLES
    now,             \* the event loop's clock: events so far
    tag,             \* _tag
    pending,         \* _pending: the request behind each tag in use
    calls,           \* [tag, t_write, state, answer] of every request written
    history,         \* history, with the request each response really answers
    crossing,        \* requests on their way to the device
    owed,            \* the device: responses composed and not yet sent
    applied,         \* the requests it took
    arriving         \* responses sent, whose callback has not run

vars == <<now, tag, pending, calls, history, crossing, owed, applied, arriving>>

Room == 2            \* _owed_max
None == 0

\* Tags stay in their range, each names the request it was written with, and a device
\* holds no more than it has room for.
TypeOK ==
    /\ now \in Nat /\ tag \in 0..(Tags - 1)
    /\ DOMAIN pending \subseteq 0..(Tags - 1)
    /\ \A t \in DOMAIN pending : pending[t] \in 1..Len(calls) /\ calls[pending[t]].tag = t
    /\ \A r \in DOMAIN calls : calls[r].state \in {"writing", "waiting", "returned", "timeout", "refused"}
    /\ Len(owed) <= Room
    /\ \A r \in applied : r \in 1..Len(calls)

Init ==
    /\ now = 0 /\ tag = 0 /\ pending = <<>> /\ calls = <<>> /\ history = <<>>
    /\ crossing = {} /\ owed = <<>> /\ applied = {} /\ arriving = <<>>

-----------------------------------------------------------------------------
(* The callers *)

In(state) == {r \in DOMAIN calls : calls[r].state = state}
Unfinished == In("writing") \cup In("waiting")
Overlapping == {r \in DOMAIN calls : calls[r].second}
GivenUp == In("timeout")
MayLose == Cardinality(GivenUp \cup In("refused")) < Losses

\* Mutant of NextTag: it is not kept to a byte.
NextTagWide == tag + 1
\* _next_tag: the next value nothing is outstanding under.
NextTag ==
    LET free == {i \in 1..Tags : (tag + i) % Tags \notin DOMAIN pending}
    IN  (tag + (CHOOSE i \in free : \A j \in free : i <= j)) % Tags

Without(t) == [u \in DOMAIN pending \ {t} |-> pending[u]]

\* send: a check writes when the request before has returned; one check writes a
\* second while the first is out.
Send ==
    /\ Len(calls) < Requests
    /\ In("writing") = {}
    /\ \/ Unfinished = {}
       \/ Unfinished = {Len(calls)} /\ Cardinality(Overlapping) < Pairs
    /\ LET r == Len(calls) + 1
           t == NextTag
       IN  /\ tag' = t
           /\ pending' = [u \in DOMAIN pending \cup {t} |-> IF u = t THEN r ELSE pending[u]]
           /\ calls' = Append(calls, [tag |-> t, t_write |-> now, state |-> "writing",
                                      answer |-> None, second |-> Unfinished # {}])
           /\ crossing' = crossing \cup {r}
    /\ now' = now + 1
    /\ UNCHANGED <<history, owed, applied, arriving>>

\* The write comes back, and the caller waits; its answer may have come before that.
Written(r) ==
    /\ calls[r].state = "writing" /\ r \notin crossing
    /\ calls' = [calls EXCEPT ![r].state = IF calls[r].answer # None THEN "returned" ELSE "waiting"]
    /\ now' = now + 1
    /\ UNCHANGED <<tag, pending, history, crossing, owed, applied, arriving>>

\* The device, or the host for it, refuses the write: nothing is waited for.
Refused(r) ==
    /\ r \in crossing /\ MayLose
    /\ crossing' = crossing \ {r}
    /\ pending' = Without(calls[r].tag)
    /\ calls' = [calls EXCEPT ![r].state = "refused"]
    /\ now' = now + 1
    /\ UNCHANGED <<tag, history, owed, applied, arriving>>

\* await_response: the caller has waited its time.  Of a pair the second is awaited first.
TimeOut(r) ==
    /\ calls[r].state = "waiting"
    /\ \A q \in In("waiting") : q <= r
    /\ MayLose
    /\ calls' = [calls EXCEPT ![r].state = "timeout"]
    /\ pending' = Without(calls[r].tag)
    /\ now' = now + 1
    /\ UNCHANGED <<tag, history, crossing, owed, applied, arriving>>

-----------------------------------------------------------------------------
(* The device *)

\* A request reaches a device: taken, refused while it owes, or discarded unanswered.
Reach(r) ==
    /\ r \in crossing
    /\ crossing' = crossing \ {r}
    /\ LET answer(s) == [tag |-> calls[r].tag, of |-> r, status |-> s]
       IN  \/ /\ owed = <<>>
              /\ applied' = applied \cup {r}
              /\ owed' = <<answer("ok")>>
           \/ /\ owed # <<>> /\ Len(owed) < Room
              /\ owed' = Append(owed, answer("busy"))
              /\ UNCHANGED applied
           \/ /\ Len(owed) = Room
              /\ UNCHANGED <<applied, owed>>
    /\ now' = now + 1
    /\ UNCHANGED <<tag, pending, calls, history, arriving>>

\* _answer: one response at a time, owed until it is sent.
SendAnswer ==
    /\ owed # <<>>
    /\ owed' = Tail(owed)
    /\ arriving' = Append(arriving, Head(owed))
    /\ now' = now + 1
    /\ UNCHANGED <<tag, pending, calls, history, crossing, applied>>

\* Mutant of Recorded: the request's own time is not kept.
RecordedLate(a) == [of |-> a.of, status |-> a.status, t_write |-> now, t_recv |-> now]
\* _build: a response nobody waits for was written, for all that is known, now.
Recorded(a) ==
    [of |-> a.of, status |-> a.status, t_recv |-> now,
     t_write |-> IF a.tag \in DOMAIN pending THEN calls[pending[a.tag]].t_write ELSE now]

\* Mutant of Answered: the oldest request waiting is the one answered.
AnsweredOldest(a) ==
    {r \in DOMAIN calls : \E t \in DOMAIN pending : pending[t] = r /\ \A u \in DOMAIN pending : r <= pending[u]}
\* Mutant of Answered: a request is registered once its write has come back.
AnsweredAfterWrite(a) ==
    {pending[t] : t \in {u \in DOMAIN pending \cap {a.tag} : calls[pending[u]].state = "waiting"}}
\* The request whose future the response completes.
Answered(a) == {pending[t] : t \in DOMAIN pending \cap {a.tag}}

\* _on_indication
Indication ==
    /\ arriving # <<>>
    /\ LET a == Head(arriving)
       IN  /\ history' = Append(history, Recorded(a))
           /\ calls' = [r \in DOMAIN calls |->
                 IF r \notin Answered(a) THEN calls[r]
                 ELSE [calls[r] EXCEPT !.answer = a.of,
                                       !.state = IF @ = "waiting" THEN "returned" ELSE @]]
           /\ pending' = [t \in {u \in DOMAIN pending : pending[u] \notin Answered(a)} |-> pending[t]]
    /\ arriving' = Tail(arriving)
    /\ now' = now + 1
    /\ UNCHANGED <<tag, crossing, owed, applied>>

-----------------------------------------------------------------------------
Next ==
    \/ Send
    \/ SendAnswer
    \/ Indication
    \/ \E r \in DOMAIN calls : Written(r) \/ Refused(r) \/ TimeOut(r) \/ Reach(r)

Fairness ==
    /\ WF_vars(SendAnswer)
    /\ WF_vars(Indication)
    /\ WF_vars(\E r \in DOMAIN calls : Reach(r) \/ Refused(r))
    /\ WF_vars(\E r \in DOMAIN calls : Written(r))

Spec == Init /\ [][Next]_vars /\ Fairness

-----------------------------------------------------------------------------
(* What the checks read out of it *)

\* checks/control.py, _overlap_excluded: the request was written after every response
\* to an earlier one had arrived.
Excluded(x) ==
    ~\E i \in DOMAIN history :
        history[i] # x /\ history[i].t_write < x.t_write /\ x.t_write < history[i].t_recv

\* What control.no_unprovoked_busy reports.
Unprovoked == {x \in Range(history) : x.status = "busy" /\ Excluded(x)}

\* A caller is handed the answer to its own request, however late answers to requests
\* given up before it arrive and however the tags come round.
OwnAnswer == \A r \in DOMAIN calls : calls[r].answer \in {None, r}

\* control.no_unprovoked_busy fails no conforming device, in a run whose callers all
\* waited long enough.
NoFalseAccusation == GivenUp = {} => Unprovoked = {}

\* The same, of any run: the docstring of _overlap_excluded.
NeverFalselyAccused == Unprovoked = {}

\* A request the device took has its caller back, with the answer unless it gave up:
\* no answer is lost, not even one that comes while the write is still under way.
AnswerArrives ==
    \A r \in 1..Requests :
        [](r \in applied => <>(r \in In("returned") \cup In("timeout")))
=============================================================================
