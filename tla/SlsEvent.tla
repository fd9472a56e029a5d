------------------------------ MODULE SlsEvent -----------------------------
(***************************************************************************)
(* How the tracing layer turns an event and its spans into the fields of a *)
(* log record (sls/layer.rs): the field containers of the spans, the       *)
(* buffer that a thread reuses for its events, and the keys made unique.   *)
(*                                                                         *)
(* Formatting a value runs code of the application (Debug), which may log  *)
(* again or touch spans on the same thread: the calls of a thread form a   *)
(* stack.  The routing by level, and the queue, are modules of their own.  *)
(***************************************************************************)
EXTENDS Naturals, FiniteSets, SequencesExt

CONSTANTS Thread,
          SpanKey,   \* the key prefix of each span, by its name; spans are 1, 2...
          KeyOf,     \* sanitize_field_key: the key of each field name
          Shape,     \* the field lists that a callsite may have
          Scopes,    \* the span chains a thread may be in, root first
          MaxCalls   \* bound: calls into the layer

Span == DOMAIN SpanKey

(* "num" is recorded without Debug; "loud" may run application code.       *)
Field == [name : DOMAIN KeyOf, kind : {"num", "plain", "loud"}]

(* A name that collides gets a suffix.                                     *)
Key == [pre : STRING, base : STRING, suf : Seq(Nat)]

(* The provers do not know that these are strings.                         *)
ASSUME Literals == {"", "__level__", "message", "__span__"} \subseteq STRING

(* The prefix of a span begins with "span.".                               *)
ASSUME EventAssumption ==
  /\ SpanKey \in Seq(STRING \ {""})
  /\ KeyOf \in [DOMAIN KeyOf -> Key]
  /\ \A f \in Shape : f \in Seq(Field)
  /\ \A c \in Scopes : c \in Seq(Span)
  /\ MaxCalls \in Nat

VARIABLES calls,    \* history: the calls begun; a value is known by its call
          stack,    \* the frames of each thread, innermost last
          scope,    \* the chain of spans each thread is in during a call
          tls,      \* EVENT_BUFFERS: the EventVisitor of each thread
          live,     \* the open spans
          ext,      \* SpanFields of each span
          writer,   \* the call that holds the extensions of each span for writing
          out       \* history: the fields of the record of each event

spanVars == <<calls, stack, scope, tls, live, ext, writer, out>>

Call == 1..MaxCalls

Value == [of : Call, no : Nat]

Entry == [key : Key, val : Value]

Visitor == [message : Seq(Value), fields : Seq(Entry)]

Empty == [message |-> <<>>, fields |-> <<>>]

Frame == [op : {"event", "new", "record"},
          id : Call,
          span : Span \cup {0},
          todo : Seq(Field),       \* fields that are not visited yet
          slot : {"tls", "own"},   \* the buffer of the thread, or one on the stack
          buf : Visitor,           \* the one on the stack
          rest : Seq(Span),        \* spans that are not read yet
          pushed : Seq(Entry)]     \* EventScratch::fields

EventTypeOK ==
  /\ Len(calls) <= MaxCalls
  /\ calls \in Seq([op : {"event", "new", "record"}, fields : Shape, span : Span \cup {0}])
  /\ stack \in [Thread -> Seq(Frame)]
  /\ scope \in [Thread -> Scopes \cup {<<>>}]
  /\ tls \in [Thread -> Visitor]
  /\ live \subseteq Span
  /\ ext \in [Span -> Seq([name : DOMAIN KeyOf, key : Key, val : Value])]
  /\ \A s \in Span : \A i, j \in DOMAIN ext[s] : ext[s][i].name = ext[s][j].name => i = j
  /\ writer \in [Span -> SUBSET Call]
  /\ out \in [Call -> Seq(Entry)]

EventInit ==
  /\ calls = <<>>
  /\ stack = [t \in Thread |-> <<>>]
  /\ scope = [t \in Thread |-> <<>>]
  /\ tls = [t \in Thread |-> Empty]
  /\ live = {}
  /\ ext = [s \in Span |-> <<>>]
  /\ writer = [s \in Span |-> {}]
  /\ out = [i \in Call |-> <<>>]

-----------------------------------------------------------------------------
(* Keys and fields                                                         *)

LevelKey   == [pre |-> "", base |-> "__level__", suf |-> <<>>]
MessageKey == [pre |-> "", base |-> "message", suf |-> <<>>]
PathKey    == [pre |-> "", base |-> "__span__", suf |-> <<>>]

Suffixed(k, n) == [k EXCEPT !.suf = Append(@, n)]

KeysIn(entries) == {entries[i].key : i \in DOMAIN entries}

(* The key itself, or the key with the least suffix from _2 that is free.  *)
Unique(used, k) ==
  IF k \notin used THEN k
  ELSE Suffixed(k, CHOOSE n \in 2..Cardinality(used) + 2 :
                     /\ Suffixed(k, n) \notin used
                     /\ \A m \in 2..n - 1 : Suffixed(k, m) \in used)

PushUnique(entries, e) ==
  LET used == KeysIn(entries) IN Append(entries, [e EXCEPT !.key = Unique(used, @)])

(* Bound by CHOOSE, each stage is evaluated once.                          *)
PushAll(entries, more) ==
  LET f[n \in 0..Len(more)] ==
        IF n = 0 THEN entries
        ELSE CHOOSE p \in {PushUnique(q, more[n]) : q \in {f[n - 1]}} : TRUE
  IN  f[Len(more)]

(* A message that is a number is a field like the others.                  *)
IsMessage(field) == field.name = "message" /\ field.kind # "num"

(* EventVisitor                                                            *)
Visit(v, field, val) ==
  IF IsMessage(field)
  THEN [v EXCEPT !.message = <<val>>]
  ELSE [v EXCEPT !.fields = Append(@, [key |-> KeyOf[field.name], val |-> val])]

(* Mutant of Upsert: a field that is recorded again is appended.           *)
UpsertAppends(s, entries, name, val) ==
  Append(entries, [name |-> name, val |-> val, key |-> [KeyOf[name] EXCEPT !.pre = SpanKey[s]]])

(* SpanFields::upsert                                                      *)
Upsert(s, entries, name, val) ==
  IF \E i \in DOMAIN entries : entries[i].name = name
  THEN [i \in DOMAIN entries |-> IF entries[i].name = name THEN [entries[i] EXCEPT !.val = val]
                                                           ELSE entries[i]]
  ELSE Append(entries, [name |-> name, val |-> val,
                        key |-> [KeyOf[name] EXCEPT !.pre = SpanKey[s]]])

-----------------------------------------------------------------------------
(* Calls into the layer                                                    *)

Top(t) == stack[t][Len(stack[t])]

SetTop(t, f) == stack' = [stack EXCEPT ![t][Len(stack[t])] = f]

Pop(t) == stack' = [stack EXCEPT ![t] = Front(@)]

(* on_record has the extensions of its span; the others need none here.    *)
Holds(f) == f.op = "record" => f.id \in writer[f.span]

(* The application runs: outside the layer, or in Debug of the next value. *)
AppRuns(t) ==
  stack[t] # <<>> =>
    /\ Top(t).todo # <<>> /\ Head(Top(t).todo).kind = "loud"
    /\ Holds(Top(t))

Begin(t, op, s, fields, slot) ==
  /\ Len(calls) < MaxCalls
  /\ AppRuns(t)
  /\ calls' = Append(calls, [op |-> op, fields |-> fields, span |-> s])
  /\ \E c \in Scopes :
       /\ IF stack[t] = <<>> THEN ToSet(c) \subseteq live ELSE c = scope[t]
       /\ scope' = [scope EXCEPT ![t] = c]
       /\ stack' = [stack EXCEPT ![t] = Append(@,
            [op |-> op, id |-> Len(calls) + 1, span |-> s, todo |-> fields, slot |-> slot,
             buf |-> Empty, rest |-> IF op = "event" THEN c ELSE <<>>, pushed |-> <<>>])]

(* Mutant of Borrowed: the buffer is taken without try_borrow_mut.         *)
BorrowedNever(t) == FALSE

(* An outer event of the thread fills the thread's buffer.                 *)
Borrowed(t) == \E i \in DOMAIN stack[t] : stack[t][i].op = "event" /\ stack[t][i].slot = "tls"

(* Mutant of OnEvent: an event that finds the buffer taken is left out.    *)
OnEventSkips(t) ==
  /\ Len(calls) < MaxCalls /\ AppRuns(t)
  /\ IF Borrowed(t)
     THEN /\ \E f \in Shape : calls' = Append(calls, [op |-> "event", fields |-> f, span |-> 0])
          /\ UNCHANGED <<stack, scope, tls>>
     ELSE /\ \E f \in Shape : Begin(t, "event", 0, f, "tls")
          /\ tls' = [tls EXCEPT ![t] = Empty]
  /\ UNCHANGED <<live, ext, writer, out>>

(* on_event up to the visitor; the buffer of the thread is reset if it is  *)
(* free, and is left alone if an outer event is filling it.                *)
OnEvent(t) ==
  /\ \E f \in Shape : Begin(t, "event", 0, f, IF Borrowed(t) THEN "own" ELSE "tls")
  /\ tls' = IF Borrowed(t) THEN tls ELSE [tls EXCEPT ![t] = Empty]
  /\ UNCHANGED <<live, ext, writer, out>>

(* on_new_span visits the fields before it takes the extensions.           *)
OnNewSpan(t) ==
  /\ \E s \in Span \ live, f \in Shape :
       /\ \A u \in Thread : \A i \in DOMAIN stack[u] : stack[u][i].span # s
       /\ Begin(t, "new", s, f, "own")
  /\ UNCHANGED <<tls, live, ext, writer, out>>

OnRecord(t) ==
  /\ \E s \in live, f \in Shape : Begin(t, "record", s, f, "own")
  /\ UNCHANGED <<tls, live, ext, writer, out>>

(* on_record holds the extensions for writing while it visits.             *)
LockSpan(t) ==
  /\ stack[t] # <<>>
  /\ LET f == Top(t) IN
       /\ f.op = "record" /\ writer[f.span] = {}
       /\ writer' = [writer EXCEPT ![f.span] = {f.id}]
  /\ UNCHANGED <<calls, stack, scope, tls, live, ext, out>>

(* on_close, when nobody is in the span or refers to it.                   *)
OnClose(s) ==
  /\ s \in live
  /\ \A t \in Thread : stack[t] # <<>> =>
       /\ s \notin ToSet(scope[t])
       /\ \A i \in DOMAIN stack[t] : stack[t][i].span # s
  /\ live' = live \ {s}
  /\ ext' = [ext EXCEPT ![s] = <<>>]
  /\ UNCHANGED <<calls, stack, scope, tls, writer, out>>

-----------------------------------------------------------------------------
(* One value is visited                                                    *)

(* Values are numbered by their place; 0 is the level, 1 the span path.    *)
ValueAt(f) == [of |-> f.id, no |-> Len(calls[f.id].fields) - Len(f.todo) + 2]

VisitEvent(t) ==
  LET f == Top(t)  field == Head(f.todo)  rest == Tail(f.todo) IN
  /\ f.op = "event"
  /\ IF f.slot = "tls"
     THEN /\ tls' = [tls EXCEPT ![t] = Visit(@, field, ValueAt(f))]
          /\ SetTop(t, [f EXCEPT !.todo = rest])
     ELSE /\ SetTop(t, [f EXCEPT !.todo = rest, !.buf = Visit(@, field, ValueAt(f))])
          /\ UNCHANGED tls
  /\ UNCHANGED <<calls, scope, live, ext, writer, out>>

(* A new span has nobody to share its fields with yet.                     *)
VisitSpan(t) ==
  LET f == Top(t) IN
  /\ f.op \in {"new", "record"} /\ Holds(f)
  /\ ext' = [ext EXCEPT ![f.span] = Upsert(f.span, @, Head(f.todo).name, ValueAt(f))]
  /\ SetTop(t, [f EXCEPT !.todo = Tail(@)])
  /\ UNCHANGED <<calls, scope, tls, live, writer, out>>

VisitField(t) ==
  /\ stack[t] # <<>> /\ Top(t).todo # <<>>
  /\ VisitEvent(t) \/ VisitSpan(t)

(* The end of on_new_span and of on_record.                                *)
EndSpan(t) ==
  /\ stack[t] # <<>> /\ Top(t).todo = <<>>
  /\ LET f == Top(t) IN
       /\ f.op \in {"new", "record"} /\ Holds(f)
       /\ live' = live \cup {f.span}
       /\ writer' = [writer EXCEPT ![f.span] = @ \ {f.id}]
  /\ Pop(t)
  /\ UNCHANGED <<calls, scope, tls, ext, out>>

-----------------------------------------------------------------------------
(* dispatch_event after the visitor                                        *)

Own(f, key, no) == <<[key |-> key, val |-> [of |-> f.id, no |-> no]]>>

Buffer(t) == IF Top(t).slot = "tls" THEN tls[t] ELSE Top(t).buf

(* The level stands for the keys that every event has: level, target, file *)
(* and line.                                                               *)
PushHeader(t) ==
  /\ stack[t] # <<>>
  /\ LET f == Top(t)
         message == [i \in DOMAIN Buffer(t).message |->
                       [key |-> MessageKey, val |-> Buffer(t).message[i]]]
     IN  /\ f.op = "event" /\ f.todo = <<>> /\ f.pushed = <<>>
         /\ SetTop(t, [f EXCEPT !.pushed = PushAll(<<>>, Own(f, LevelKey, 0) \o message)])
  /\ UNCHANGED <<calls, scope, tls, live, ext, writer, out>>

(* The next span of the scope: its extensions are taken for reading.       *)
PushSpan(t) ==
  /\ stack[t] # <<>>
  /\ LET f == Top(t) IN
       /\ f.op = "event" /\ f.pushed # <<>> /\ f.rest # <<>>
       /\ writer[Head(f.rest)] = {}
       /\ LET fields == ext[Head(f.rest)]
          IN  SetTop(t, [f EXCEPT !.rest = Tail(@), !.pushed = PushAll(@,
                [i \in DOMAIN fields |-> [key |-> fields[i].key, val |-> fields[i].val]])])
  /\ UNCHANGED <<calls, scope, tls, live, ext, writer, out>>

(* The path of the spans, the fields of the event, and the enqueue.        *)
Enqueue(t) ==
  /\ stack[t] # <<>>
  /\ LET f    == Top(t)
         path == IF scope[t] = <<>> THEN <<>> ELSE Own(f, PathKey, 1)
     IN  /\ f.op = "event" /\ f.pushed # <<>> /\ f.rest = <<>>
         /\ out' = [out EXCEPT ![f.id] = PushAll(f.pushed, path \o Buffer(t).fields)]
  /\ Pop(t)
  /\ UNCHANGED <<calls, scope, tls, live, ext, writer>>

LayerStep(t) == LockSpan(t) \/ VisitField(t) \/ EndSpan(t) \/ PushHeader(t) \/ PushSpan(t) \/ Enqueue(t)

(* A value that logs, or touches a span, while on_record holds a span may  *)
(* meet that span again: the thread then waits for itself.                 *)
QuietRecord ==
  \A t \in Thread : \A i \in DOMAIN stack[t] : stack[t][i].op = "record" => i = Len(stack[t])

(* No call is left, or such a value has stopped its thread.                *)
CallsDone ==
  /\ Len(calls) = MaxCalls
  /\ (\A t \in Thread : stack[t] = <<>>) \/ ~QuietRecord
  /\ UNCHANGED spanVars

EventNext ==
  \/ \E t \in Thread : OnEvent(t) \/ OnNewSpan(t) \/ OnRecord(t) \/ LayerStep(t)
  \/ \E s \in Span : OnClose(s)
  \/ CallsDone

EventSpec == EventInit /\ [][EventNext]_spanVars

(* A thread that is in the layer goes on when it can.                      *)
EventFairness == \A t \in Thread : WF_spanVars(LayerStep(t))

-----------------------------------------------------------------------------
(* What an event carries itself, by number: the level and its fields, of   *)
(* two messages the last.                                                  *)
OwnNumbers(fields) ==
  {0} \cup {k + 1 : k \in {j \in DOMAIN fields :
    IsMessage(fields[j]) => \A m \in j + 1..Len(fields) : ~IsMessage(fields[m])}}

(* The order of dispatch_event: level, message, span path, other fields.   *)
Rank(fields, no) ==
  CASE no = 0 -> 0
    [] no = 1 -> 2
    [] OTHER  -> IF IsMessage(fields[no - 1]) THEN 1 ELSE no + 1

(* The entries of a record that carry values of call i.                    *)
OwnAt(i, entries) == {j \in DOMAIN entries : entries[j].val.of = i}

Numbers(i, entries) == {entries[j].val.no : j \in OwnAt(i, entries)}

InOrder(i, fields, entries) ==
  \A j, k \in OwnAt(i, entries) :
    j < k => Rank(fields, entries[j].val.no) < Rank(fields, entries[k].val.no)

Sources(entries) == {entries[j].val.of : j \in DOMAIN entries}

SpanCalls == {c \in DOMAIN calls : calls[c].span # 0}

KeysApart(entries) ==
  \A j, k \in DOMAIN entries : entries[j].key = entries[k].key => j = k

(* A record holds the values of its own event, all of them, each once and  *)
(* in order, and beside them only values of spans; a nested event on the   *)
(* same thread, or another thread, leaves no trace in it.  No two keys are *)
(* equal, and the keys of the layer are not displaced by the application.  *)
RecordIsOwn ==
  \A i \in DOMAIN calls : out[i] # <<>> =>
    /\ Numbers(i, out[i]) \ {1} = OwnNumbers(calls[i].fields)
    /\ InOrder(i, calls[i].fields, out[i])
    /\ Sources(out[i]) \subseteq {i} \cup SpanCalls
    /\ KeysApart(out[i])
    /\ out[i][1].key = LevelKey
    /\ \A j \in OwnAt(i, out[i]) : out[i][j].val.no = 1 => out[i][j].key = PathKey

(* Every event that begins is enqueued, and never waits for itself or in a *)
(* circle of threads, unless a value calls the layer from within on_record.*)
EventsAreEnqueued ==
  []QuietRecord => \A i \in Call :
    (i \in DOMAIN calls /\ calls[i].op = "event") ~> (out[i] # <<>>)
=============================================================================
