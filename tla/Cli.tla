--------------------------------- MODULE Cli ---------------------------------
(***************************************************************************)
(* The terminal client (client/main.cpp) beside other users of the         *)
(* library: lines are gathered into a buffer until a semicolon comes, and  *)
(* what stands before the last one is executed.                            *)
(***************************************************************************)
EXTENDS Protocol, SequencesExt

CONSTANTS
    Terminal,       \* the clients that are terminals
    Session         \* what may be typed into them: sequences of lines

ASSUME TerminalAssumption == Terminal \subseteq Client /\ \A t \in Terminal : Asks[t] = {}

VARIABLES
    terminal        \* of each terminal: how far its main has come, and its input

cliVars == <<vars, terminal>>

QuitLine == <<"quit">>
HelpLine == <<"help">>

Prompting(t) == terminal[t].at = "prompt" /\ Idle(t)

\* Nothing else is done when there is no connection.
Start(t) ==
    /\ terminal[t].at = "start"
    /\ \/ Connect(t) /\ terminal' = [terminal EXCEPT ![t].at = "prompt"]
       \/ ConnectFails(t) /\ terminal' = [terminal EXCEPT ![t].at = "ended"]

Quit(t) ==
    /\ Prompting(t)
    /\ \/ terminal[t].lines = <<>>
       \/ terminal[t].lines # <<>> /\ terminal[t].buffer = <<>>
          /\ Head(terminal[t].lines) = QuitLine
    /\ Disconnect(t)
    /\ terminal' = [terminal EXCEPT ![t].at = "ended"]

\* std::getline, with what the buffer is then.
ReadLine(t, buffer) ==
    terminal' = [terminal EXCEPT ![t].lines = Tail(@), ![t].buffer = buffer,
                                 ![t].read = Append(@, Head(terminal[t].lines))]

Ignored(t) == terminal[t].buffer = <<>> /\ Head(terminal[t].lines) \in {<<>>, HelpLine, QuitLine}

Ignore(t) ==
    /\ Prompting(t) /\ terminal[t].lines # <<>> /\ Ignored(t)
    /\ Head(terminal[t].lines) # QuitLine
    /\ ReadLine(t, <<>>)
    /\ UNCHANGED vars

\* Mutant: the lines are joined without a blank.
JoinedTight(buffer, line) == buffer \o line

\* The end of a line becomes a blank, so a comment goes on to the next line.
Joined(buffer, line) == (IF buffer = <<>> THEN <<>> ELSE Append(buffer, " ")) \o line

\* Where the last semicolon is, also one inside of a string; 0 if there is none.
rfind(text) == Max({0} \cup {i \in DOMAIN text : text[i] = ";"})

\* What follows the last semicolon is forgotten.
Enter(t) ==
    LET text == Joined(terminal[t].buffer, Head(terminal[t].lines))
        sql  == SubSeq(text, 1, rfind(text))
    IN  /\ Prompting(t) /\ terminal[t].lines # <<>> /\ ~Ignored(t)
        /\ ReadLine(t, IF sql = <<>> THEN text ELSE <<>>)
        /\ IF sql \in {<<>>, <<";">>} THEN UNCHANGED vars ELSE Execute(t, sql)

CliInit ==
    /\ Init
    /\ terminal \in [Terminal -> {[at |-> "start", lines |-> lines, buffer |-> <<>>, read |-> <<>>] :
                                  lines \in Session}]

CliNext ==
    \/ (System \/ \E c \in Client \ Terminal : Use(c)) /\ UNCHANGED terminal
    \/ \E t \in Terminal : Start(t) \/ Quit(t) \/ Ignore(t) \/ Enter(t)

\* Nobody has to type.
CliSpec == CliInit /\ [][CliNext]_cliVars

FairCliSpec == CliSpec /\ Fairness
=============================================================================
