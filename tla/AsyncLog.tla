------------------------------ MODULE AsyncLog ------------------------------
(***************************************************************************)
(* log/log.h and log/log.cpp: write_log and flush, called by every thread  *)
(* of the server through the LOG_ macros, and the thread that empties the  *)
(* queue in asynchronous mode.  write_log takes m_mutex twice, then looks  *)
(* at the queue, then pushes or writes: other threads run between them.    *)
(* A line is who wrote it and which of its lines it is; a file is the day  *)
(* and the number in its name.                                             *)
(***************************************************************************)
EXTENDS BlockQueue, FiniteSets

CONSTANTS
  Writers,         \* the threads that log
  Flusher,         \* the thread of async_write_log
  MaxLines,        \* lines per writer
  m_split_lines,   \* lines after which the file is changed
  Days             \* the last day

Lines == Writers \X (1..MaxLines)

ASSUME LogAssumption ==
  /\ Readers = {Flusher} /\ Flusher \notin Writers
  /\ Items = Lines /\ IsFiniteSet(Writers)
  /\ {MaxLines, m_split_lines, Days} \subseteq Nat \ {0}

VARIABLES
  m_is_async,   \* init() was given a queue length
  day,          \* the clock
  my_tm,        \* the day each writer read at the start of write_log
  m_count, m_today,
  m_fp,         \* the open file: <<day, number>>
  written,      \* history: what fputs was given, where, and who called it
  flushed,      \* how much of `written' has left the stdio buffer
  dropped,      \* history: the lines push() refused
  no,           \* the number of each writer's current line
  at            \* where each thread is

fileVars == <<m_count, m_today, m_fp>>
logVars == <<m_is_async, day, my_tm, fileVars, written, flushed, dropped, no, at>>
vars == <<queueVars, logVars>>

Goto(t, place) == at' = [at EXCEPT ![t] = place]
Line(w) == <<w, no[w]>>

\* init(): the file of today, appended to.
Init ==
  /\ QueueInit
  /\ m_is_async \in BOOLEAN
  /\ day = 1 /\ m_today = 1 /\ m_count = 0 /\ m_fp = <<1, 0>>
  /\ my_tm = [w \in Writers |-> 1]
  /\ written = <<>> /\ flushed = 0 /\ dropped = {}
  /\ no = [w \in Writers |-> 1]
  /\ at = [t \in Writers \cup {Flusher} |-> IF t = Flusher THEN "pop" ELSE "idle"]

Midnight ==
  /\ day < Days
  /\ day' = day + 1
  /\ UNCHANGED <<queueVars, m_is_async, my_tm, fileVars, written, flushed, dropped, no, at>>

\* write_log() reads the clock.
Begin(w) ==
  /\ at[w] = "idle" /\ no[w] <= MaxLines
  /\ my_tm' = [my_tm EXCEPT ![w] = day]
  /\ Goto(w, "count")
  /\ UNCHANGED <<queueVars, m_is_async, day, fileVars, written, flushed, dropped, no>>

\* The first critical section: the line is counted; on a new day and after
\* m_split_lines lines the file is flushed, closed and changed.  (The second
\* one formats the line in m_buf and copies it: it leaves nothing behind.)
Count(w) ==
  /\ at[w] = "count"
  /\ IF m_today # my_tm[w]
     THEN m_today' = my_tm[w] /\ m_count' = 0
     ELSE m_count' = m_count + 1 /\ UNCHANGED m_today
  /\ IF m_today # my_tm[w] \/ m_count' % m_split_lines = 0
     THEN /\ m_fp' = <<my_tm[w], m_count' \div m_split_lines>>
          /\ flushed' = Len(written)
     ELSE UNCHANGED <<m_fp, flushed>>
  /\ Goto(w, "choose")
  /\ UNCHANGED <<queueVars, m_is_async, day, my_tm, written, dropped, no>>

\* m_is_async && !m_log_queue->full(): full() locks and unlocks.
Choose(w) ==
  /\ at[w] = "choose"
  /\ Goto(w, IF m_is_async /\ ~Full THEN "push" ELSE "fputs")
  /\ UNCHANGED <<queueVars, m_is_async, day, my_tm, fileVars, written, flushed,
                 dropped, no>>

\* push(): its result is ignored.
PushLine(w) ==
  /\ at[w] = "push"
  /\ \/ Push(Line(w)) /\ UNCHANGED dropped
     \/ PushFails /\ dropped' = dropped \cup {Line(w)}
  /\ Goto(w, "flush")
  /\ UNCHANGED <<m_is_async, day, my_tm, fileVars, written, flushed, no>>

Fputs(line, t) ==
  written' = Append(written, [line |-> line, file |-> m_fp, by |-> t])

\* The third critical section: fputs by the writer itself.
WriteLine(w) ==
  /\ at[w] = "fputs"
  /\ Fputs(Line(w), w)
  /\ Goto(w, "flush")
  /\ UNCHANGED <<queueVars, m_is_async, day, my_tm, fileVars, flushed, dropped, no>>

\* Variant: the LOG_ macros end without flush().
MacroNoFlush(w) ==
  /\ at[w] = "flush"
  /\ Goto(w, "idle")
  /\ no' = [no EXCEPT ![w] = @ + 1]
  /\ UNCHANGED <<queueVars, m_is_async, day, my_tm, fileVars, written, flushed, dropped>>

\* flush(), the end of the LOG_ macros.
Flush(w) ==
  /\ at[w] = "flush"
  /\ flushed' = Len(written)
  /\ Goto(w, "idle")
  /\ no' = [no EXCEPT ![w] = @ + 1]
  /\ UNCHANGED <<queueVars, m_is_async, day, my_tm, fileVars, written, dropped>>

\* async_write_log(): pop() waits or wakes for nothing ...
FlusherWaits ==
  /\ m_is_async /\ at[Flusher] = "pop"
  /\ PopWaits(Flusher) \/ Spurious(Flusher)
  /\ UNCHANGED logVars

\* ... or takes a line ...
FlusherPops ==
  /\ at[Flusher] = "pop"
  /\ Pop(Flusher)
  /\ Goto(Flusher, "fputs")
  /\ UNCHANGED <<m_is_async, day, my_tm, fileVars, written, flushed, dropped, no>>

\* ... which is written to the file that is open now.
FlusherWrites ==
  /\ at[Flusher] = "fputs"
  /\ Fputs(taken[Flusher], Flusher)
  /\ Goto(Flusher, "pop")
  /\ UNCHANGED <<queueVars, m_is_async, day, my_tm, fileVars, flushed, dropped, no>>

WriterStep(w) ==
  Begin(w) \/ Count(w) \/ Choose(w) \/ PushLine(w) \/ WriteLine(w) \/ Flush(w)

Next ==
  \/ Midnight
  \/ \E w \in Writers : WriterStep(w)
  \/ FlusherWaits \/ FlusherPops \/ FlusherWrites

\* Threads run; a thread asleep in m_cond.wait needs a broadcast to be woken.
Fairness ==
  /\ \A w \in Writers : WF_vars(WriterStep(w))
  /\ WF_vars(FlusherPops) /\ WF_vars(FlusherWrites)

Spec == Init /\ [][Next]_vars /\ Fairness
-----------------------------------------------------------------------------
\* Types and indices of the ring and the files.
LogTypes ==
  /\ RingOK
  /\ m_is_async \in BOOLEAN /\ day \in 1..Days
  /\ my_tm \in [Writers -> 1..day] /\ m_today \in 1..day
  /\ m_count \in Nat /\ m_fp \in (1..day) \X Nat
  /\ flushed \in 0..Len(written) /\ dropped \subseteq Lines
  /\ no \in [Writers -> 1..(MaxLines + 1)]
  /\ \A i \in DOMAIN written : written[i].line \in Lines

\* Types and indices; and between pop() and fputs() the flusher has a line in its
\* hands, never an empty slot of the ring.
TypeOK == LogTypes /\ (at[Flusher] = "fputs" => taken[Flusher] \in Lines)

\* The lines write_log has disposed of: their writers are past push or fputs.
Logged ==
  {l \in Lines : l[2] < no[l[1]] + (IF at[l[1]] = "flush" THEN 1 ELSE 0)}

Places(l) ==
  Cardinality({i \in DOMAIN written : written[i].line = l})
    + Cardinality({i \in 1..m_size : Contents[i] = l})
    + (IF at[Flusher] = "fputs" /\ taken[Flusher] = l THEN 1 ELSE 0)
    + (IF l \in dropped THEN 1 ELSE 0)

\* Each line write_log was called for is in one place: written, queued, in the
\* hands of the flusher, or refused by push(), which takes the queue to have
\* filled up since write_log looked (log.cpp:136-137).
OnePlace == \A l \in Lines : Places(l) = IF l \in Logged THEN 1 ELSE 0

\* The lines of a thread are written in the order in which it logged them,
\* unless the later one found the queue full and was written by the thread
\* itself, past the queue (log.cpp:136-142).
OrderKept ==
  \A i, j \in DOMAIN written :
    LET a == written[i].line
        b == written[j].line
    IN  a[1] = b[1] /\ a[2] > b[2] /\ i < j => written[i].by = a[1] /\ m_is_async

\* Between write_log, the ring and the flusher no line is lost, doubled or
\* overtaken by its writer's next one, but in the two cases named above.
LinesKept == OnePlace /\ OrderKept

\* When a LOG_ macro returns, a line that its thread wrote has left the stdio
\* buffer, whatever other threads did to the file in the meantime: only queued
\* lines are lost in a crash.
DurableAtReturn ==
  \A i \in DOMAIN written :
    LET l == written[i].line
    IN  written[i].by # Flusher /\ l[2] < no[l[1]] => i <= flushed

\* A file gets its m_split_lines lines and those that were counted before it
\* was opened, one per other thread at most: in synchronous mode and as long
\* as no midnight sends m_today back and forth.
SplitKept ==
  ~m_is_async /\ day = 1 =>
    \A i \in DOMAIN written :
      Cardinality({j \in DOMAIN written : written[j].file = written[i].file})
        < m_split_lines + Cardinality(Writers)

\* Rotation, which any thread may do between another one's counting and
\* writing, leaves lines neither in the buffer of a closed file nor too many
\* in one file.
FilesRight == DurableAtReturn /\ SplitKept

\* A queued line is written in the end: no broadcast is missed, although
\* push() may come between any two steps of a pop() that finds nothing.
QueueDrains ==
  \A l \in Lines :
    (\E i \in 1..m_size : Contents[i] = l) ~> (\E i \in DOMAIN written : written[i].line = l)

=============================================================================
