--------------------------------- MODULE Tty ---------------------------------
(***************************************************************************)
(* src/tty/tty.c: a program that asks at the console for a name and a      *)
(* password, starts a shell for the user, and then carries lines to the    *)
(* shell (the thread TtyIn) and its output to the console (TtyOut).  The   *)
(* lines are read with GetLine, which edits them and echoes what it reads. *)
(* A character stands for its kind: "a" for all that are no control        *)
(* characters, "^H" for all that are shown as two, "DEL", "^C" and "^M".   *)
(***************************************************************************)
EXTENDS Naturals, Sequences, SequencesExt

CONSTANTS MaxLine,      \* MAXIMUM_BUFFER_SIZE
          MaxRead,      \* the longest read
          MaxTyped      \* bound on what is typed for one line

ASSUME TtyAssumption == MaxLine \in Nat \ {0, 1} /\ MaxRead \in Nat /\ MaxTyped \in Nat

Chars == {"a", "^H", "DEL", "^C", "^M"}
Ends  == {"^C", "^M"}

VARIABLES session,      \* where the program is
          line,         \* GetLine's Buffer, up to Offset
          sequence,     \* what is left of the last read
          columns,      \* the columns of the console the line takes
          got,          \* GetLine: "reading", "line", or "failed"
          typed,        \* what GetLine has looked at (history)
          sent,         \* the last write to the shell
          output        \* whether the shell has written something

ttyVars == <<session, line, sequence, columns, got, typed, sent, output>>

GetLineInit == /\ line = <<>> /\ sequence = <<>> /\ columns = 0
               /\ got = "reading" /\ typed = <<>>

TtyInit == /\ session = "login"
           /\ GetLineInit
           /\ sent = <<>> /\ output = FALSE

(* The sizes GetLine is called with: TtyIn leaves room for a line feed.    *)
Size(s) == IF s = "shell" THEN MaxLine - 1 ELSE MaxLine
NoEcho == session = "password"
Prompts == {"login", "password", "elevate", "shell"}

Width(c, noEcho) == IF c = "^H" THEN 2 ELSE IF c \in Ends \/ noEcho THEN 0 ELSE 1

-----------------------------------------------------------------------------
(* GetLine.                                                                *)

Reading == session \in Prompts /\ got = "reading"

ReadFile ==
  /\ Reading /\ sequence = <<>>
  /\ \/ /\ \E n \in 0..MaxRead : /\ Len(typed) + n <= MaxTyped
                                 /\ sequence' \in [1..n -> Chars]
        /\ UNCHANGED got
     \/ got' = "failed" /\ UNCHANGED sequence
  /\ UNCHANGED <<session, line, columns, typed, sent, output>>

(* The character has been stored.  What follows the end of a line, or one  *)
(* that fills the buffer, is dropped.                                      *)
Stored(c) ==
  /\ line' = Append(line, c)
  /\ columns' = columns + Width(c, NoEcho)
  /\ IF c \in Ends \/ Len(line) + 1 >= Size(session)
     THEN sequence' = <<>> /\ got' = "line"
     ELSE sequence' = Tail(sequence) /\ UNCHANGED got

(* Mutation of Deleted: the width is that of the DEL, stored by now where  *)
(* the next character would be.                                            *)
DeletedAfter ==
  /\ IF line = <<>> THEN UNCHANGED <<line, columns>>
     ELSE line' = Front(line) /\ columns' = columns - (IF NoEcho THEN 0 ELSE 1)
  /\ sequence' = Tail(sequence)
  /\ UNCHANGED got

Deleted ==
  /\ IF line = <<>> THEN UNCHANGED <<line, columns>>
     ELSE line' = Front(line) /\ columns' = columns - Width(Last(line), NoEcho)
  /\ sequence' = Tail(sequence)
  /\ UNCHANGED got

Character ==
  /\ Reading /\ sequence # <<>>
  /\ IF Head(sequence) = "DEL" THEN Deleted ELSE Stored(Head(sequence))
  /\ typed' = Append(typed, Head(sequence))
  /\ UNCHANGED <<session, sent, output>>

-----------------------------------------------------------------------------
(* _tmain, with GetCredentials, RequestElevation and CreateChild.          *)

(* GetLine is called for the next line, or no more. *)
SessionGoes(from, to) == /\ session = from
                         /\ session' = to
                         /\ line' = <<>> /\ sequence' = <<>> /\ columns' = 0
                         /\ got' = "reading" /\ typed' = <<>>

Terminated == got = "line" /\ Last(line) = "^M"

(* The line fills the buffer: the search for its end goes beyond it, and   *)
(* finds one or not.                                                       *)
Unterminated == got = "line" /\ Last(line) \notin Ends

Named == Terminated /\ Len(line) > 1

Login ==
  /\ \/ (Named \/ Unterminated) /\ SessionGoes("login", "password")
     \/ ~Named /\ got # "reading" /\ SessionGoes("login", "ended")
  /\ UNCHANGED <<sent, output>>

Password ==
  /\ \/ (Terminated \/ Unterminated) /\ SessionGoes("password", "logon")
     \/ ~Terminated /\ got # "reading" /\ SessionGoes("password", "ended")
  /\ UNCHANGED <<sent, output>>

LogonUser ==
  /\ \E to \in {"elevate", "child", "ended"} : SessionGoes("logon", to)
  /\ UNCHANGED <<sent, output>>

(* "yes" may be answered, and the elevation fail. *)
RequestElevation ==
  /\ \/ (Named \/ Unterminated) /\ SessionGoes("elevate", "child")
     \/ got # "reading" /\ SessionGoes("elevate", "ended")
  /\ UNCHANGED <<sent, output>>

CreateChild ==
  /\ \E to \in {"shell", "ended"} : SessionGoes("child", to)
  /\ UNCHANGED <<sent, output>>

(* The program ends with the shell or with either of its threads, whatever *)
(* the shell has written.                                                  *)
ChildExits ==
  /\ SessionGoes("shell", "ended")
  /\ UNCHANGED <<sent, output>>

-----------------------------------------------------------------------------
(* TtyIn, TtyOut.                                                          *)

TtyInLine ==
  /\ got = "line"
  /\ SessionGoes("shell", "shell")
  /\ IF Terminated THEN sent' = Append(line, "LF") ELSE UNCHANGED sent
  /\ UNCHANGED output

(* The console or the shell is gone. *)
TtyInFails ==
  /\ got = "failed" \/ Terminated
  /\ SessionGoes("shell", "ended")
  /\ UNCHANGED <<sent, output>>

ChildWrites ==
  /\ session = "shell" /\ ~output
  /\ output' = TRUE
  /\ UNCHANGED <<session, line, sequence, columns, got, typed, sent>>

TtyOut ==
  /\ session = "shell" /\ output
  /\ output' = FALSE
  /\ UNCHANGED <<session, line, sequence, columns, got, typed, sent>>

TtyOutFails ==
  /\ output
  /\ SessionGoes("shell", "ended")
  /\ UNCHANGED <<sent, output>>

TtyNext == \/ ReadFile \/ Character
           \/ Login \/ Password \/ LogonUser \/ RequestElevation \/ CreateChild
           \/ TtyInLine \/ TtyInFails
           \/ ChildWrites \/ TtyOut \/ TtyOutFails \/ ChildExits

TtySpec == TtyInit /\ [][TtyNext]_ttyVars

-----------------------------------------------------------------------------
TtyTypeOK ==
  /\ session \in Prompts \cup {"logon", "child", "ended"}
  /\ line \in Seq(Chars \ {"DEL"})
  /\ sequence \in Seq(Chars) /\ Len(sequence) <= MaxRead
  /\ columns \in 0..(2 * MaxLine)
  /\ got \in {"reading", "line", "failed"}
  /\ typed \in Seq(Chars) /\ Len(typed) <= MaxTyped
  /\ sent \in Seq((Chars \ {"DEL"}) \cup {"LF"})
  /\ output \in BOOLEAN

(* A line as it is to be edited: each DEL takes away the character before  *)
(* it that is left, if there is one.                                       *)
Edited(s) ==
  LET edited[n \in 0..Len(s)] ==
        IF n = 0 THEN <<>>
        ELSE IF s[n] # "DEL" THEN Append(edited[n - 1], s[n])
        ELSE IF edited[n - 1] = <<>> THEN <<>> ELSE Front(edited[n - 1])
  IN edited[Len(s)]

(* The columns a line takes. *)
Columns(l, noEcho) ==
  LET taken[n \in 0..Len(l)] == IF n = 0 THEN 0 ELSE taken[n - 1] + Width(l[n], noEcho)
  IN taken[Len(l)]

(* GetLine has edited what was typed as it is to be, however the reads cut *)
(* it up, and the console shows exactly that; what it returns, and what    *)
(* the shell is sent, is one line at most, and fits the buffer.            *)
LineEdited ==
  /\ TtyTypeOK
  /\ line = Edited(typed)
  /\ columns = Columns(line, NoEcho)
  /\ \A i \in 1..(Len(line) - 1) : line[i] \notin Ends
  /\ Len(line) <= Size(session)
  /\ got = "line" => Last(line) \in Ends \/ Len(line) = Size(session)
  /\ Len(sent) <= MaxLine
  /\ sent # <<>> => Last(Front(sent)) = "^M"
=============================================================================
