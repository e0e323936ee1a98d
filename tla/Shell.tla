-------------------------------- MODULE Shell --------------------------------
(***************************************************************************)
(* The shell (shell/shell.c): readline edits cmd_line with the characters  *)
(* read from stdin, cmd_parse splits it into words, and my_shell runs the  *)
(* command, itself or in a child.                                          *)
(*                                                                         *)
(* Characters are those of the keyboard.  cmd_line[i] of the code is here  *)
(* cmd_line[i + 1], and there is one element more than in the code: the    *)
(* one readline writes when the line is full.                              *)
(***************************************************************************)
EXTENDS Keyboard

CONSTANTS
  CMD_LEN,    \* the length of cmd_line, 128 in the code, as is MAX_PATH_LEN
  MAX_ARG_NR  \* the length of argv, 16 in the code

ASSUME ShellAssumption == CMD_LEN \in Nat \ {0} /\ MAX_ARG_NR \in Nat \ {0}

VARIABLES
  at,       \* "prompt", "readline", "parse", "run", "wait" (for a child),
            \* "panic" (ASSERT or PANIC in the shell) or "torn": it wrote
            \* after the end of cmd_line or of argv, and the model ends
  cmd_line,
  pos,      \* how many characters of the line there are
  argv,     \* the words: where each one starts
  argc,
  line      \* history: the line as edited, for comparison

shellVars == <<at, cmd_line, pos, argv, argc, line>>

Nothing == [i \in 1..(CMD_LEN + 1) |-> Nul]

ShellInit ==
  /\ at = "prompt"
  /\ cmd_line = Nothing /\ pos = 0
  /\ argv = << >> /\ argc = -1
  /\ line = << >>

\* print_prompt, and a line that is all 0.  argv and argc are the old ones in
\* the code, where cmd_parse clears them before it reads the next line.
prompt ==
  /\ at = "prompt"
  /\ at' = "readline"
  /\ cmd_line' = Nothing /\ pos' = 0 /\ line' = << >>
  /\ argv' = << >> /\ argc' = -1

\* What editing means: the last character goes, or all of them, or one comes.
Edited(c) ==
  CASE c = Backspace -> IF line = << >> THEN line ELSE SubSeq(line, 1, Len(line) - 1)
    [] c = Ctrl_u -> << >>
    [] c \in {Ctrl_l, Enter} -> line
    [] OTHER -> Append(line, c)

\* Mutant: the first character of the line is not looked at.
BackAlways(c, stored) ==
  CASE c = Backspace -> pos' = pos - 1 /\ cmd_line' = stored
    [] c = Ctrl_u -> pos' = 0 /\ cmd_line' = [i \in DOMAIN stored |-> IF i \in 2..(pos + 1) THEN Nul ELSE stored[i]]
    [] c = Ctrl_l -> cmd_line' = [stored EXCEPT ![pos + 1] = Nul] /\ UNCHANGED pos
    [] OTHER -> pos' = pos + 1 /\ cmd_line' = stored

\* The cases of readline but Enter; stored is the line with c at pos
edit(c, stored) ==
  CASE c = Backspace -> pos' = (IF stored[1] # Backspace THEN pos - 1 ELSE pos) /\ cmd_line' = stored
    [] c = Ctrl_u -> pos' = 0 /\ cmd_line' = [i \in DOMAIN stored |-> IF i \in 2..(pos + 1) THEN Nul ELSE stored[i]]
    [] c = Ctrl_l -> cmd_line' = [stored EXCEPT ![pos + 1] = Nul] /\ UNCHANGED pos
    [] OTHER -> pos' = pos + 1 /\ cmd_line' = stored

\* readline reads c to cmd_line[pos], and looks only then whether there was
\* room for it.
readline(c) ==
  /\ at = "readline"
  /\ LET stored == [cmd_line EXCEPT ![pos + 1] = c] IN
     IF pos >= CMD_LEN
     THEN at' = "torn" /\ cmd_line' = stored /\ UNCHANGED pos
     ELSE IF c = Enter
     THEN at' = "parse" /\ cmd_line' = [stored EXCEPT ![pos + 1] = Nul] /\ UNCHANGED pos
     ELSE edit(c, stored) /\ UNCHANGED at
  /\ line' = IF pos >= CMD_LEN THEN line ELSE Edited(c)
  /\ UNCHANGED <<argv, argc>>

Least(S) == CHOOSE x \in S : \A y \in S : x <= y

\* The inner loops of cmd_parse: next goes to the start of a word, and then
\* to the end of it
word_start(next) == Least({i \in next..(CMD_LEN + 1) : cmd_line[i] # Blank})
word_end(i) == Least({j \in i..(CMD_LEN + 1) : cmd_line[j] \in {Nul, Blank}})

\* The outer loop of cmd_parse from next on: where the words start
WordsFrom[next \in 1..(CMD_LEN + 1)] ==
  LET i == word_start(next) IN
  IF cmd_line[next] = Nul \/ cmd_line[i] = Nul THEN << >>
  ELSE IF cmd_line[word_end(i)] = Nul THEN <<i>>
  ELSE <<i>> \o WordsFrom[word_end(i) + 1]

\* cmd_parse, and the tests before and after it in my_shell.  argv is written
\* before argc is compared with MAX_ARG_NR, and two words too late.
cmd_parse ==
  /\ at = "parse"
  /\ IF cmd_line[1] = Nul THEN at' = "prompt" /\ UNCHANGED <<cmd_line, argv, argc>>
     ELSE LET words == WordsFrom[1]
              ends == {word_end(words[k]) : k \in DOMAIN words} IN
          /\ at' = IF Len(words) > MAX_ARG_NR THEN "torn" ELSE "run"
          /\ argv' = words
          /\ argc' = IF Len(words) > MAX_ARG_NR + 1 THEN -1 ELSE Len(words)
          /\ cmd_line' = [i \in DOMAIN cmd_line |-> IF i \in ends THEN Nul ELSE cmd_line[i]]
  /\ UNCHANGED <<pos, line>>

\* my_shell compares argv[0] with the names of the commands it has: strcmp of
\* NULL fails its ASSERT.  A command of its own is done at once.
run_buildin ==
  /\ at = "run"
  /\ at' = IF argc = 0 THEN "panic" ELSE "prompt"
  /\ UNCHANGED <<cmd_line, pos, argv, argc, line>>

\* Any other one is done by a child; fork returns -1 if it fails, which is
\* taken for a child, and wait then finds none.
run_program(forks) ==
  /\ at = "run" /\ argc # 0
  /\ at' = IF forks THEN "wait" ELSE "panic"
  /\ UNCHANGED <<cmd_line, pos, argv, argc, line>>

\* sys_wait has reclaimed the child.
child_ends ==
  /\ at = "wait"
  /\ at' = "prompt"
  /\ UNCHANGED <<cmd_line, pos, argv, argc, line>>

-----------------------------------------------------------------------------
ShellTypeOK ==
  /\ at \in {"prompt", "readline", "parse", "run", "wait", "panic", "torn"}
  /\ DOMAIN cmd_line = 1..(CMD_LEN + 1)
  /\ pos \in 0..CMD_LEN
  /\ argc \in -1..CMD_LEN

WordStarts == {i \in DOMAIN line : line[i] # Blank /\ (i = 1 \/ line[i - 1] = Blank)}

\* The command that runs is the one that was typed.  readline keeps the line as
\* it was edited, whatever was deleted on the way, and cmd_parse finds the
\* words of it: argv leads to each of them in order, and there is the 0 that
\* ends it.
WordsOfLine ==
  /\ ShellTypeOK
  /\ at = "readline" => SubSeq(cmd_line, 1, pos) = line
  /\ at = "run" =>
       /\ argc = Len(argv) /\ argc = Cardinality(WordStarts)
       /\ \A k, l \in DOMAIN argv : k < l => argv[k] < argv[l]
       /\ \A k \in DOMAIN argv :
            LET i == argv[k]
                end == Least({j \in i..Len(cmd_line) : cmd_line[j] = Nul}) IN
            /\ i \in WordStarts
            /\ \A j \in i..(end - 1) : cmd_line[j] = line[j] /\ line[j] # Blank
            /\ end = Len(line) + 1 \/ line[end] = Blank
=============================================================================
