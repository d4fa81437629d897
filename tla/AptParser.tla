------------------------------ MODULE AptParser ------------------------------
(***************************************************************************)
(* ParseApt of server-go/modules/sandbox/sandbox.go: the package names a   *)
(* delegate's shell command asks apt to install.                           *)
(*                                                                         *)
(* The command comes in word by word, as tokenize cuts it; each action is  *)
(* what the two nested loops do with one word.  What they ask of the       *)
(* characters of a word is given by constants.                             *)
(***************************************************************************)
EXTENDS Integers, Sequences, SequencesExt

CONSTANTS
  Word,       \* the words a command may hold, operators included
  Flag,       \* those that start with "-"
  EnvAssign,  \* isEnvAssign: those that look like VAR=value
  Slashed,    \* those with a "/" in them
  NameOf,     \* the word up to "=", cut to PackageNameMax - 1 bytes
  ValidName,  \* packageValid
  max,        \* most names one call returns
  MaxWords    \* bound: words of a command

VARIABLES
  cmd,   \* history: the words read so far
  mode,  \* where in its loops ParseApt is, see below
  found  \* the names collected

aptVars == <<cmd, mode, found>>

\* "start": at the beginning of a segment; "skip": in some other command; "apt": before the
\* subcommand; "install": after it; the next word is an option's value in "aptArg" and
\* "installArg"; "full": max names have been found.
Modes == {"start", "skip", "apt", "install", "aptArg", "installArg", "full"}

isOperator(w) == w \in {"&&", "||", "|", ";", "&", "\n"}

aptOptionTakesArg(w) ==
  w \in {"-t", "-o", "-c", "-a", "--target-release", "--default-release", "--option",
         "--config-file", "--arch"}

\* Operators do not start with "-", and the options with a value do.
ASSUME ParserAssumption ==
  /\ Flag \cup EnvAssign \cup Slashed \subseteq Word /\ NameOf \in [Word -> STRING]
  /\ \A w \in Word : (isOperator(w) => w \notin Flag) /\ (aptOptionTakesArg(w) => w \in Flag)
  /\ max \in Nat \ {0} /\ MaxWords \in Nat

AptInit == cmd = <<>> /\ mode = "start" /\ found = <<>>

\* An assignment, sudo, or a flag right behind sudo.
Prefix(w) ==
  w \in EnvAssign \/ w = "sudo" \/ (cmd # <<>> /\ Last(cmd) = "sudo" /\ w \in Flag)

CommandWord(w) == w \in {"apt", "apt-get"}

StartWord(w) ==
  /\ mode = "start"
  /\ mode' = CASE Prefix(w) -> "start"
               [] ~Prefix(w) /\ CommandWord(w) -> "apt"
               [] OTHER -> IF isOperator(w) THEN "start" ELSE "skip"
  /\ UNCHANGED found

SkipWord(w) ==
  /\ mode = "skip"
  /\ mode' = IF isOperator(w) THEN "start" ELSE "skip"
  /\ UNCHANGED found

\* An operator ends the command, also where an option's value is expected.
EndWord(w) ==
  /\ mode \in {"apt", "install", "aptArg", "installArg"} /\ isOperator(w)
  /\ mode' = "start"
  /\ UNCHANGED found

\* Mutant: the value of an option is taken without a look at the operators.
OptionValueAny(w) ==
  /\ mode \in {"aptArg", "installArg"}
  /\ mode' = IF mode = "aptArg" THEN "apt" ELSE "install"
  /\ UNCHANGED found

OptionValue(w) ==
  /\ mode \in {"aptArg", "installArg"} /\ ~isOperator(w)
  /\ mode' = IF mode = "aptArg" THEN "apt" ELSE "install"
  /\ UNCHANGED found

ValueOf(m) == IF m = "apt" THEN "aptArg" ELSE "installArg"

\* Mutant: an option behind install does not take its value along.
OptionForgetsValue(w) ==
  /\ mode \in {"apt", "install"} /\ w \in Flag
  /\ mode' = IF aptOptionTakesArg(w) /\ mode = "apt" THEN "aptArg" ELSE mode
  /\ UNCHANGED found

Option(w) ==
  /\ mode \in {"apt", "install"} /\ w \in Flag
  /\ mode' = IF aptOptionTakesArg(w) THEN ValueOf(mode) ELSE mode
  /\ UNCHANGED found

\* After another subcommand the outer loop goes on with the next word of the same command.
Subcommand(w) ==
  /\ mode = "apt" /\ w \notin Flag /\ ~isOperator(w)
  /\ mode' = IF w = "install" THEN "install" ELSE "start"
  /\ UNCHANGED found

Package(w) ==
  /\ mode = "install" /\ w \notin Flag /\ ~isOperator(w)
  /\ found' = IF w \notin Slashed /\ NameOf[w] \in ValidName /\ ~Contains(found, NameOf[w])
              THEN Append(found, NameOf[w]) ELSE found
  /\ mode' = IF Len(found') = max THEN "full" ELSE mode

\* Both loops have ended.
IgnoredWord(w) ==
  /\ mode = "full"
  /\ UNCHANGED <<mode, found>>

ReadWord(w) ==
  /\ Len(cmd) < MaxWords
  /\ \/ StartWord(w) \/ SkipWord(w) \/ EndWord(w) \/ OptionValue(w) \/ Option(w)
     \/ Subcommand(w) \/ Package(w) \/ IgnoredWord(w)
  /\ cmd' = Append(cmd, w)

AptNext == \E w \in Word : ReadWord(w)

(***************************************************************************)
(* What a command asks for, segment by segment and without a state.        *)
(***************************************************************************)
\* The segments of c: what stands between two operators.
Ends(c) == {i \in DOMAIN c : isOperator(c[i])} \cup {0, Len(c) + 1}
Segments(c) ==
  {g \in Ends(c) \X Ends(c) : g[1] < g[2] /\ \A k \in Ends(c) : k <= g[1] \/ k >= g[2]}

\* One of sudo's own flags: nothing but flags stands between it and a sudo of segment g.
SudoFlagAt(c, g, i) ==
  /\ c[i] \in Flag
  /\ \E s \in (g[1] + 1)..(i - 1) : c[s] = "sudo" /\ \A k \in (s + 1)..(i - 1) : c[k] \in Flag

\* Position of the command word of segment g: the first that is no prefix.
IsPrefixAt(c, g, i) == c[i] \in EnvAssign \/ c[i] = "sudo" \/ SudoFlagAt(c, g, i)
CommandAt(c, g, i) ==
  /\ i \in (g[1] + 1)..(g[2] - 1) /\ CommandWord(c[i]) /\ ~IsPrefixAt(c, g, i)
  /\ \A k \in (g[1] + 1)..(i - 1) : IsPrefixAt(c, g, k)

\* Positions of the words behind command word i that are neither options nor their values.
\* An option takes the next word as its value unless it is a value itself.
Arguments(c, g, i) ==
  LET value[k \in i..Len(c)] == k > i + 1 /\ aptOptionTakesArg(c[k - 1]) /\ ~value[k - 1]
  IN {k \in (i + 1)..(g[2] - 1) : c[k] \notin Flag /\ ~value[k]}

Asked(c) ==
  {k \in DOMAIN c : \E g \in Segments(c) : \E i \in 1..(k - 1) :
     /\ CommandAt(c, g, i) /\ k \in Arguments(c, g, i)
     /\ \E s \in Arguments(c, g, i) :
          c[s] = "install" /\ s < k /\ \A r \in Arguments(c, g, i) : s <= r
     /\ c[k] \notin Slashed /\ NameOf[c[k]] \in ValidName}

\* The first max different names, in the order of the command.
Reference(c) ==
  LET first == {k \in Asked(c) : \A r \in Asked(c) : NameOf[c[r]] = NameOf[c[k]] => k <= r}
      order == SetToSortSeq(first, <)
  IN [n \in 1..(IF Len(order) < max THEN Len(order) ELSE max) |-> NameOf[c[order[n]]]]

\* A segment whose apt command is not an installation and names apt once more.
Resumes(c) ==
  \E g \in Segments(c) : \E i \in DOMAIN c :
    /\ CommandAt(c, g, i)
    /\ \E s \in Arguments(c, g, i) :
         c[s] # "install" /\ \A r \in Arguments(c, g, i) : s <= r
    /\ \E k \in (i + 1)..(g[2] - 1) : CommandWord(c[k])

\* A segment with two of sudo's own flags in a row before the command word.
SecondSudoFlag(c) ==
  \E g \in Segments(c) : \E i \in (g[1] + 2)..(g[2] - 1) :
    /\ SudoFlagAt(c, g, i) /\ SudoFlagAt(c, g, i - 1)
    /\ \A k \in (g[1] + 1)..i : IsPrefixAt(c, g, k)

\* ParseApt finds what the command asks apt to install, each name once and at most max of
\* them, through assignments, sudo and a flag of it, options, pins and operators in any order.
\* There are two exceptions.  Where the loop resumes inside a command, a later word apt is
\* taken for a command word, so a package may be learned that no command installs.  And only
\* the flag right behind sudo is skipped, so a command with a second one is not recognised.
FindsWhatIsAsked == ~Resumes(cmd) /\ ~SecondSudoFlag(cmd) => found = Reference(cmd)

\* What the comment in ParseApt says: "skip env assignments, sudo, and sudo's own flags".  So a
\* command is recognised behind a sudo with more than one flag as well.
SkipsSudoFlags == ~Resumes(cmd) /\ SecondSudoFlag(cmd) => found = Reference(cmd)

\* Word k of c is no option's value: those with a value that stand right before it, behind
\* word e, are even in number, so that every second one is the value of its predecessor.
NoValue(c, k) ==
  \E e \in 1..(k - 1) :
    /\ ~aptOptionTakesArg(c[e]) /\ \A j \in (e + 1)..(k - 1) : aptOptionTakesArg(c[j])
    /\ \E r \in 0..k : k = e + 2 * r + 1

\* Word k of c stands in one command with apt and install, in this order, before it; it is
\* neither an option nor the value of one.
Installs(c, k) ==
  \E i \in 1..(k - 1) : \E s \in (i + 1)..(k - 1) :
    /\ CommandWord(c[i]) /\ c[s] = "install" /\ \A j \in i..k : ~isOperator(c[j])
    /\ c[k] \notin Flag \cup Slashed /\ NameOf[c[k]] \in ValidName /\ NoValue(c, k)

\* Also where the loop resumes inside a command, ParseApt finds only what an apt and an
\* install in the same command stand before, each name once and at most max of them: a
\* package is not learned from another command or from an option's value.
LearnsOnlyInstalls ==
  /\ \A n \in DOMAIN found : \E k \in DOMAIN cmd : Installs(cmd, k) /\ found[n] = NameOf[cmd[k]]
  /\ \A n, m \in DOMAIN found : found[n] = found[m] => n = m
  /\ Len(found) <= max

=============================================================================
