------------------------------- MODULE Logger -------------------------------
(***************************************************************************)
(* LL::Logger (src/source/llbase/logging.h): one producer thread calls     *)
(* logf, which scans its format string and pushes one LogElement per       *)
(* character or substituted argument into the logger's LFQueue; the       *)
(* logger's own thread (process_queue) writes the elements to the file;    *)
(* the owner's ~Logger waits for the queue to empty, stops and joins that  *)
(* thread and closes the file.                                             *)
(*                                                                         *)
(* A format string is a sequence over Chars ("%" and one ordinary          *)
(* character); an argument is a model value (a LogType::INT element).  The   *)
(* queue holds 8M elements, never full within the bounds, so it is a      *)
(* sequence; push_element's write and increment_write_index are one step, *)
(* since only the single producer moves i_write.  FATAL is exit(): the     *)
(* process ends.                                                           *)
(***************************************************************************)
EXTENDS Naturals, Sequences, SequencesExt, FiniteSets

CONSTANTS
    Values,     \* argument values
    MaxFmt,     \* bound: length of a format string
    MaxArgs,    \* bound: arguments of one logf call
    MaxCalls    \* bound: logf calls of the producer

Chars == {"%", "a"}
Msgs  == [fmt : BoundedSeq(Chars, MaxFmt), args : BoundedSeq(Values, MaxArgs)]

VARIABLES
    q,          \* the logger's queue of LogElements
    file,       \* what process_queue has written to the file
    is_running, \* Logger::is_running
    fmt,        \* logf's s: the rest of the format string
    pargs,      \* logf's remaining arguments
    ppc,        \* producer: "idle", "logf", "done" (stopped), "fatal" (exit)
    cpc,        \* logger thread: "top" (while test), "drain" (for loop), "exited"
    dpc,        \* owner: "live", then ~Logger's "wait", "stop", "join", "closed"
    calls,      \* history: the logf calls made
    pushed      \* history: every element pushed

vars == <<q, file, is_running, fmt, pargs, ppc, cpc, dpc, calls, pushed>>

-----------------------------------------------------------------------------
(* Logger::push_element: *(queue.get_next_to_write()) = e; increment.     *)
push_element(e) == q' = Append(q, e) /\ pushed' = Append(pushed, e)

\* Mutant of push_value: an overload that tags every value as a char.
push_value_untyped(t, v) == push_element([type |-> "CHAR", value |-> v])

(* The push_value overloads: the LogElement of the value's type.          *)
push_value(t, v) == push_element([type |-> t, value |-> v])

\* Mutant of Escaped: the '%%' test is missing.
Escaped_never(s) == FALSE

(* A '%' followed by another '%'.                                          *)
Escaped(s) == Len(s) > 1 /\ s[1] = "%" /\ s[2] = "%"

(* One pass of logf's while-not-at-end loop, or its end.                         *)
logf ==
    /\ ppc = "logf"
    /\ \/ /\ fmt = <<>> /\ pargs = <<>>                 \* the base case returns
          /\ ppc' = "idle"
          /\ UNCHANGED <<q, fmt, pargs, pushed>>
       \/ /\ fmt = <<>> /\ pargs # <<>>                 \* "too many arguments"
          /\ ppc' = "fatal"
          /\ UNCHANGED <<q, fmt, pargs, pushed>>
       \/ /\ Escaped(fmt)                               \* ++s; push_value of the char at s++
          /\ push_value("CHAR", "%")
          /\ fmt' = Tail(Tail(fmt))
          /\ UNCHANGED <<pargs, ppc>>
       \/ /\ fmt # <<>> /\ Head(fmt) = "%" /\ ~Escaped(fmt)
          /\ pargs # <<>>                               \* push_value(value);
          /\ push_value("INT", Head(pargs))                    \* logf(s + 1, args...)
          /\ fmt' = Tail(fmt)
          /\ pargs' = Tail(pargs)
          /\ UNCHANGED ppc
       \/ /\ fmt # <<>> /\ Head(fmt) = "%" /\ ~Escaped(fmt)
          /\ pargs = <<>>                               \* "missing arguments"
          /\ ppc' = "fatal"
          /\ UNCHANGED <<q, fmt, pargs, pushed>>
       \/ /\ fmt # <<>> /\ Head(fmt) # "%"              \* push_value of the char at s++
          /\ push_value("CHAR", Head(fmt))
          /\ fmt' = Tail(fmt)
          /\ UNCHANGED <<pargs, ppc>>
    /\ UNCHANGED <<file, is_running, cpc, dpc, calls>>

(* The producer calls logf(s, args...).                                    *)
Call ==
    /\ ppc = "idle"
    /\ Len(calls) < MaxCalls
    /\ \E m \in Msgs :
          /\ calls' = Append(calls, m)
          /\ fmt' = m.fmt
          /\ pargs' = m.args
    /\ ppc' = "logf"
    /\ UNCHANGED <<q, file, is_running, cpc, dpc, pushed>>

(* The producer's thread is stopped and joined by the logger's owner.     *)
Finish ==
    /\ ppc = "idle"
    /\ ppc' = "done"
    /\ UNCHANGED <<q, file, is_running, fmt, pargs, cpc, dpc, calls, pushed>>

-----------------------------------------------------------------------------
(* Logger::process_queue.  The while test, then the for loop: write each  *)
(* element (file << next->value) and increment_read_index until size()   *)
(* is 0; then flush and sleep.                                             *)
process_queue ==
    /\ \/ /\ cpc = "top"
          /\ cpc' = IF is_running THEN "drain" ELSE "exited"
          /\ UNCHANGED <<q, file>>
       \/ /\ cpc = "drain" /\ q # <<>>
          /\ file' = Append(file, Head(q).value)
          /\ q' = Tail(q)
          /\ UNCHANGED cpc
       \/ /\ cpc = "drain" /\ q = <<>>
          /\ cpc' = "top"
          /\ UNCHANGED <<q, file>>
    /\ UNCHANGED <<is_running, fmt, pargs, ppc, dpc, calls, pushed>>

-----------------------------------------------------------------------------
(* The owner destroys the logger once its producer has stopped.           *)
Destroy ==
    /\ dpc = "live" /\ ppc = "done"
    /\ dpc' = "wait"
    /\ UNCHANGED <<q, file, is_running, fmt, pargs, ppc, cpc, calls, pushed>>

\* Mutant of DtorWait: ~Logger does not wait for the queue to drain.
DtorWait_nodrain ==
    /\ dpc = "wait"
    /\ dpc' = "stop"
    /\ UNCHANGED <<q, file, is_running, fmt, pargs, ppc, cpc, calls, pushed>>

(* ~Logger: while (queue.size()) sleep.                                   *)
DtorWait ==
    /\ dpc = "wait" /\ Len(q) = 0
    /\ dpc' = "stop"
    /\ UNCHANGED <<q, file, is_running, fmt, pargs, ppc, cpc, calls, pushed>>

\* Mutant of DtorStop: ~Logger joins without clearing is_running.
DtorStop_noclear ==
    /\ dpc = "stop"
    /\ dpc' = "join"
    /\ UNCHANGED <<q, file, is_running, fmt, pargs, ppc, cpc, calls, pushed>>

(* ~Logger: is_running = false.                                           *)
DtorStop ==
    /\ dpc = "stop"
    /\ is_running' = FALSE
    /\ dpc' = "join"
    /\ UNCHANGED <<q, file, fmt, pargs, ppc, cpc, calls, pushed>>

(* ~Logger: thread->join(), then file.close().                            *)
DtorJoin ==
    /\ dpc = "join" /\ cpc = "exited"
    /\ dpc' = "closed"
    /\ UNCHANGED <<q, file, is_running, fmt, pargs, ppc, cpc, calls, pushed>>

-----------------------------------------------------------------------------
(* Logger::Logger: the file is open and process_queue's thread running.   *)
Init ==
    /\ q = <<>> /\ file = <<>>
    /\ is_running = TRUE
    /\ fmt = <<>> /\ pargs = <<>>
    /\ ppc = "idle" /\ cpc = "top" /\ dpc = "live"
    /\ calls = <<>> /\ pushed = <<>>

Producer == logf \/ Call \/ Finish
Owner == Destroy \/ DtorWait \/ DtorStop \/ DtorJoin

Next == ppc # "fatal" /\ (Producer \/ process_queue \/ Owner)

Spec == Init /\ [][Next]_vars

(* Every thread runs until it blocks: the producer finishes its calls and *)
(* is stopped, the logger thread loops on a 10 ms sleep, and the owner's  *)
(* destructor runs to its end.                                            *)
FairSpec ==
    Spec /\ WF_vars(Producer) /\ WF_vars(process_queue) /\ WF_vars(Owner)
-----------------------------------------------------------------------------
(* The reference: what the documentation of logf says it does.  Reading   *)
(* left to right, "%%" stands for one '%' and any other '%' is a hole     *)
(* filled by the next argument.  Declaratively: in a run of '%', they      *)
(* pair up from the start of the run; an odd '%' not followed by another  *)
(* is a hole.  A call with a hole but no argument left writes what comes  *)
(* before that hole; a call fails when holes and arguments differ.        *)
RunLen(s, i) ==
    CHOOSE r \in 0 .. i : /\ \A j \in (i - r + 1) .. i : s[j] = "%"
                          /\ r = i \/ s[i - r] # "%"
IsHole(s, i) ==
    s[i] = "%" /\ RunLen(s, i) % 2 = 1 /\ (i = Len(s) \/ s[i + 1] # "%")
IsOpener(s, i) ==
    s[i] = "%" /\ RunLen(s, i) % 2 = 1 /\ i < Len(s) /\ s[i + 1] = "%"
HoleRank(s, i) == Cardinality({j \in 1 .. i : IsHole(s, j)})

RefFatal(m) == HoleRank(m.fmt, Len(m.fmt)) # Len(m.args)

RefCut(m) ==
    IF HoleRank(m.fmt, Len(m.fmt)) > Len(m.args)
    THEN (CHOOSE i \in DOMAIN m.fmt :
             IsHole(m.fmt, i) /\ HoleRank(m.fmt, i) = Len(m.args) + 1) - 1
    ELSE Len(m.fmt)

RefEmit(m, i) ==
    CASE IsHole(m.fmt, i)   -> <<[type |-> "INT",
                                  value |-> m.args[HoleRank(m.fmt, i)]]>>
      [] IsOpener(m.fmt, i) -> <<>>
      [] OTHER              -> <<[type |-> "CHAR", value |-> m.fmt[i]]>>

RefOut(m) == FlattenSeq([i \in 1 .. RefCut(m) |-> RefEmit(m, i)])

-----------------------------------------------------------------------------
Elements == [type : {"CHAR"}, value : Chars] \cup [type : {"INT"}, value : Values]

TypeOK ==
    /\ q \in Seq(Elements) /\ pushed \in Seq(Elements)
    /\ file \in Seq(Chars \cup Values)
    /\ is_running \in BOOLEAN
    /\ ppc \in {"idle", "logf", "done", "fatal"}
    /\ cpc \in {"top", "drain", "exited"}
    /\ dpc \in {"live", "wait", "stop", "join", "closed"}

(* Logger::logf, about its scan of the format string with the '%%' escape *)
(* and its two FATALs: whenever the producer is between calls or has      *)
(* failed, it has pushed exactly the reference rendering of every call,   *)
(* and it failed exactly when the last call's holes and arguments differ. *)
LogfMatchesReference ==
    ppc \in {"idle", "done", "fatal"} =>
        /\ pushed = FlattenSeq([k \in 1 .. Len(calls) |-> RefOut(calls[k])])
        /\ (ppc = "fatal") = (calls # <<>> /\ RefFatal(Last(calls)))

(* ~Logger's drain (while (queue.size()) sleep) against process_queue's   *)
(* loops: once the file is closed, it holds every element ever pushed, in *)
(* order.                                                                  *)
ClosedFileComplete ==
    dpc = "closed" => file = [k \in 1 .. Len(pushed) |-> pushed[k].value]

(* ~Logger returns: the logger thread sees is_running false and exits, so *)
(* the join ends and the file is closed, unless logf has exited the       *)
(* process.                                                                *)
LoggerEventuallyClosed == <>(dpc = "closed" \/ ppc = "fatal")
=============================================================================
