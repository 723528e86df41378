-------------------------------- MODULE Logging --------------------------------
(***************************************************************************)
(* log_msg: a message is collected in an osyncstream of its own and goes   *)
(* to the log as a whole when it is destroyed.  Threads of the pools write *)
(* messages at the same time, and a message may be moved: log_err()        *)
(* returns it, active_connection_end() and the signal handler keep it in a *)
(* variable.                                                               *)
(*                                                                         *)
(* Texts are left out: a message is a sequence of pieces, of which piece 0 *)
(* is the prefix made by the constructor.                                  *)
(***************************************************************************)
EXTENDS Integers, Sequences, FiniteSets

CONSTANTS
    Writers,      \* the threads of the pools
    Levels,       \* the levels of the messages that they write
    MaxMessages,  \* bound: the messages of each of them
    MaxPieces     \* bound: the last piece of a message

VARIABLES
    level,    \* logger::_level
    msg,      \* the log_msg of each writer: its _os, its text and whether it is
              \*   still the temporary object that was constructed
    made,     \* the number of messages of each writer
    written,  \* history: what it wrote to messages that are enabled
    out       \* the log, a sequence of <<writer, message, piece>>

logVars == <<level, msg, made, written, out>>

log_levels == [off |-> -1, emerg |-> 0, alert |-> 1, crit |-> 2, err |-> 3,
               warning |-> 4, notice |-> 5, info |-> 6, debug |-> 7]

to_string(l) == <<"-", "X", "A", "C", "E", "W", "N", "I", "D">>[l + 2]

\* The names of the levels, which the option -l of benchmark takes
names == <<{"-", "off"}, {"X", "emerg", "emergency"}, {"A", "alert"},
           {"C", "crit", "critical"}, {"E", "err", "error"},
           {"W", "warn", "warning"}, {"N", "notice"}, {"I", "info"},
           {"D", "debug"}>>

from_string(str) ==
    LET found == {l \in -1 .. 7 : str \in names[l + 2]}
    IN  IF found = {} THEN "nullopt" ELSE CHOOSE l \in found : TRUE

NoMsg == [os |-> "none", text |-> <<>>, temporary |-> FALSE]

LogInit ==
    /\ level = log_levels.info
    /\ msg = [w \in Writers |-> NoMsg]
    /\ made = [w \in Writers |-> 0]
    /\ written = [w \in Writers |-> <<>>]
    /\ out = <<>>

\* The test in the constructor
enabled(l) == l > log_levels.off /\ l <= level

\* What the destructor sends to the log: endl flushes the osyncstream.
destroyed(w, m) == IF m.os = "cerr" THEN Append(m.text, <<w, made[w], "endl">>)
                                    ELSE <<>>

Construct(w, l) ==
    LET piece == <<w, made[w] + 1, 0>>
    IN  /\ msg[w] = NoMsg /\ made[w] < MaxMessages
        /\ made' = [made EXCEPT ![w] = @ + 1]
        /\ msg' = [msg EXCEPT ![w] =
                     [os |-> IF enabled(l) THEN "cerr" ELSE "nullopt",
                      text |-> IF enabled(l) THEN <<piece>> ELSE <<>>,
                      temporary |-> TRUE]]
        /\ written' = [written EXCEPT ![w] = IF enabled(l) THEN Append(@, piece) ELSE @]
        /\ UNCHANGED <<level, out>>

\* operator<< on a message that is enabled
Insert(w) ==
    LET piece == <<w, made[w], Len(msg[w].text)>>
    IN  /\ msg[w].os = "cerr" /\ Len(msg[w].text) <= MaxPieces
        /\ msg' = [msg EXCEPT ![w].text = Append(@, piece)]
        /\ written' = [written EXCEPT ![w] = Append(@, piece)]
        /\ UNCHANGED <<level, made, out>>

\* operator<< throws: kill() destroys the osyncstream, which emits the rest.
InsertThrows(w) ==
    /\ msg[w].os = "cerr" /\ Len(msg[w].text) <= MaxPieces
    /\ msg' = [msg EXCEPT ![w].os = "nullopt", ![w].text = <<>>]
    /\ out' = out \o msg[w].text
    /\ UNCHANGED <<level, made, written>>

\* Faulty: the message that was moved still has its text.
moved_from_Copy(m) == m

\* The optional of a message that was moved is not empty, but wraps nothing.
moved_from(m) == [m EXCEPT !.os = IF @ = "cerr" THEN "nullptr" ELSE @,
                           !.text = <<>>]

\* The message is moved, and the temporary object is destroyed.
Move(w) ==
    /\ msg[w].temporary
    /\ msg' = [msg EXCEPT ![w].temporary = FALSE]
    /\ out' = out \o destroyed(w, moved_from(msg[w]))
    /\ UNCHANGED <<level, made, written>>

Destroy(w) ==
    /\ msg[w] # NoMsg
    /\ msg' = [msg EXCEPT ![w] = NoMsg]
    /\ out' = out \o destroyed(w, msg[w])
    /\ written' = [written EXCEPT ![w] =
                     IF msg[w].os = "cerr" THEN Append(@, <<w, made[w], "endl">>) ELSE @]
    /\ UNCHANGED <<level, made>>

WriterStep(w) == \/ \E l \in Levels : Construct(w, l)
                 \/ Insert(w) \/ InsertThrows(w) \/ Move(w) \/ Destroy(w)

------------------------------------------------------------------------------
\* The places of writer w among the first n of a log
Places(log, w, n) == {j \in 1 .. n : log[j][1] = w}

\* What a thread writes to its messages gets to the log once and in order: all
\* of it when it has no message, in spite of moves and exceptions; and messages
\* of different threads are not mixed up there.
LogFaithful ==
    /\ \A w \in Writers : msg[w] = NoMsg =>
          /\ Cardinality(Places(out, w, Len(out))) = Len(written[w])
          /\ \A i \in Places(out, w, Len(out)) :
                out[i] = written[w][Cardinality(Places(out, w, i))]
    /\ \A i, k \in DOMAIN out :
          i < k /\ out[i][1] = out[k][1] /\ out[i][2] = out[k][2] =>
              \A j \in i .. k : out[j][1] = out[i][1]
==============================================================================
