------------------------------- MODULE Benchmark -------------------------------
(***************************************************************************)
(* The program benchmark: run() chooses the command, which does its work   *)
(* in a thread pool (BenchCreate, BenchRequests) and ends when that is out *)
(* of work.                                                                *)
(***************************************************************************)
EXTENDS BenchCreate

CONSTANTS TIME, SECOND, MaxTime  \* see BenchRequests

VARIABLES
    command,  \* the command that runs, before that "none" and at last "exit"
    started, waiting, pc, tnow, t, tt, now, report

Requests == INSTANCE BenchRequests

requestVars == <<started, waiting, pc, tnow, t, tt, now, report>>

BenchInit == command = "none" /\ Init /\ Requests!Init

\* Without valid arguments only the usage is shown, which help does, too.
RunCommand(c) ==
    /\ command = "none"
    /\ command' = c
    /\ UNCHANGED <<vars, requestVars>>

CreateStep ==
    /\ command = "create"
    /\ Next
    /\ UNCHANGED <<command, requestVars>>

RequestsStep ==
    /\ command = "requests"
    /\ Requests!Next
    /\ UNCHANGED <<command, vars>>

CommandReturns ==
    /\ \/ command = "create" /\ phase = "end"
       \/ command = "requests" /\ Requests!Finished
    /\ command' = "exit"
    /\ UNCHANGED <<vars, requestVars>>

BenchNext == \/ \E c \in {"create", "requests", "exit"} : RunCommand(c)
             \/ CreateStep \/ RequestsStep \/ CommandReturns

benchVars == <<command, vars, requestVars>>

\* The threads run while there is work, and time passes.
BenchSpec ==
    /\ BenchInit /\ [][BenchNext]_benchVars
    /\ WF_benchVars(BenchNext)
    /\ WF_benchVars(command = "requests" /\ Requests!ClockTicks
                        /\ UNCHANGED <<command, vars>>)
    /\ \A p \in Partitions :
         WF_benchVars(command = "requests" /\ Requests!HandlerStep(p)
                          /\ UNCHANGED <<command, vars>>)

------------------------------------------------------------------------------
ReportTimeKept == Requests!ReportTimeKept

\* Two reports are at least a second apart, also if two handlers look at the clock
\* at the same time or in the other order than they get to tt.
ReportsApart == [][report' # report => report' >= report + SECOND]_report

\* Every command ends: a chain of insertions also if it finds the counter past
\* RECORDS, a chain of requests at the first one after TIME.
CommandEnds == <>(command = "exit")
==============================================================================
