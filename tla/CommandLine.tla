----------------------------- MODULE CommandLine ------------------------------
(***************************************************************************)
(* internal/cli: what becomes of a command line.  Execute (app.go) parses  *)
(* the global flags, finds the command, assembles the configuration and    *)
(* runs the command; parseScanArgs (scan.go) takes the arguments of scan.  *)
(*                                                                         *)
(* A token that begins with a dash and is longer than it is a flag, any    *)
(* other is a word.  Only words the code compares with are told apart.     *)
(***************************************************************************)
EXTENDS Settings, SequencesExt, FiniteSetsExt

CONSTANTS Word          \* the words among the tokens

TakesValue == {"-brute", "-dir"}          \* the next token, whatever it is
MayTakeValue == {"-tcp", "-udp"}          \* the next token if it is a word
Implemented == {"-d", "-p", "-tcp", "-brute"}
NotYet == {"-udp", "-f", "-en", "-dir"}

LooksLikeFlag(token) == token \notin Word

ScanRefused == [ok |-> FALSE]

\* Mutant: -tcp and -udp take the next token as -brute does.
AlwaysTakesValue(args) ==
  [i \in DOMAIN args |-> IF i > 1 /\ args[i - 1] \in TakesValue \union MayTakeValue THEN "value"
                         ELSE IF LooksLikeFlag(args[i]) THEN "flag" ELSE "positional"]

\* What the loop of parseScanArgs takes each token for.
Roles(args) ==
  LET role[i \in DOMAIN args] ==
        IF /\ i > 1 /\ role[i - 1] = "flag"
           /\ \/ args[i - 1] \in TakesValue
              \/ args[i - 1] \in MayTakeValue /\ ~LooksLikeFlag(args[i])
        THEN "value"
        ELSE IF LooksLikeFlag(args[i]) THEN "flag" ELSE "positional"
  IN  [i \in DOMAIN args |-> role[i]]

ParseScanArgs(args) ==
  LET role == Roles(args)
      Places(flag) == {i \in DOMAIN args : role[i] = "flag" /\ args[i] = flag}
      flags == {args[i] : i \in {j \in DOMAIN args : role[j] = "flag"}}
      positional == {i \in DOMAIN args : role[i] = "positional"}
      \* The value of the last of several; the empty one if it took none.
      ValueOf(flag) ==
        IF Places(flag) = {} THEN <<>>
        ELSE LET i == Max(Places(flag)) + 1 IN
             IF i \in DOMAIN args /\ role[i] = "value" THEN <<args[i]>> ELSE <<>>
  IN
  IF \/ ~(flags \subseteq Implemented \union NotYet)             \* unknown flag
     \/ args # <<>> /\ Last(role) = "flag" /\ Last(args) \in TakesValue
     \/ Cardinality(positional) # 1                               \* no target, or several
     \/ flags \intersect NotYet # {}
     \/ flags \intersect Implemented = {}                         \* no action requested
  THEN ScanRefused
  ELSE [ok |-> TRUE, target |-> args[Max(positional)],
        discover |-> "-d" \in flags, allPorts |-> "-p" \in flags,
        brute |-> "-brute" \in flags, wordlist |-> ValueOf("-brute"),
        tcp |-> "-tcp" \in flags, spec |-> ValueOf("-tcp")]

------------------------------------------------------------------------------
(* Execute.  A command line is a record: what flag.Parse says of it (parse), *)
(* the global flags that have a value (a layer of settings), the Boolean     *)
(* ones, and the tokens that follow.                                         *)

Commands == {"version", "capabilities", "modules", "config", "scan"}

HasHelpFlag(args) == \E i \in DOMAIN args : args[i] \in {"-h", "--help", "help"}

\* applyFlagOverrides: an explicit level, else -v, else -q.
FlagLayer(line) ==
  IF "log_level" \in DOMAIN line.flags THEN line.flags
  ELSE IF line.verbose THEN Over([log_level |-> "debug"], line.flags)
  ELSE IF line.quiet THEN Over([log_level |-> "error"], line.flags)
  ELSE line.flags

Exit(code) == [code |-> code, ran |-> FALSE]
Ran(code, cfg) == [code |-> code, ran |-> TRUE, cfg |-> cfg]

\* Mutant: the flags are not checked again.
ExecuteUnchecked(line, file, env, logOpens, succeeds) ==
  LET args == Tail(line.rest)
      loaded == Load(file, env)
      cfg == Over(FlagLayer(line), loaded.cfg)
  IN  IF line.parse = "help" \/ line.version \/ line.rest = <<>> THEN Exit(0)
      ELSE IF line.parse = "error" \/ Head(line.rest) \notin Commands THEN Exit(2)
      ELSE IF HasHelpFlag(args) THEN Exit(0)
      ELSE IF ~loaded.ok \/ ~logOpens THEN Exit(1)
      ELSE Ran(IF succeeds THEN 0 ELSE 1, cfg)

\* The configuration is checked before the flags are applied and again after.
\* logOpens: the log file can be opened; succeeds: the command, once it has its
\* arguments, returns no error.
Execute(line, file, env, logOpens, succeeds) ==
  LET args == Tail(line.rest)
      loaded == Load(file, env)
      cfg == Over(FlagLayer(line), loaded.cfg)
  IN
  IF line.parse = "error" THEN Exit(2)
  ELSE IF line.parse = "help" \/ line.version \/ line.rest = <<>> THEN Exit(0)
  ELSE IF Head(line.rest) \notin Commands THEN Exit(2)
  ELSE IF HasHelpFlag(args) THEN Exit(0)
  ELSE IF ~loaded.ok \/ ~Valid(cfg) \/ ~logOpens THEN Exit(1)
  ELSE IF Head(line.rest) = "scan" /\ ~ParseScanArgs(args).ok THEN Ran(1, cfg)
  ELSE Ran(IF succeeds THEN 0 ELSE 1, cfg)
==============================================================================
