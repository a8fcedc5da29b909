------------------------------- MODULE Settings -------------------------------
(***************************************************************************)
(* internal/config/config.go: the layers a configuration is made of and    *)
(* the checks it must pass.                                                *)
(*                                                                         *)
(* A configuration is a record of settings; a layer has only the settings  *)
(* it mentions.  Settings that no check looks at are left out.  Texts that *)
(* the checks cannot tell apart are one, and rates are whole numbers.  A   *)
(* variable that is set to the empty text is not set.                      *)
(***************************************************************************)
EXTENDS Integers, Sequences

CONSTANTS BlankText,    \* a text of spaces only
          NotANumber,   \* what strconv.Atoi, ParseFloat or ParseBool refuses
          Unreadable    \* a file that cannot be opened, decoded, or has unknown keys

Default ==
  [project |-> "default", data_dir |-> "./data", log_level |-> "info", log_format |-> "text",
   global |-> 50, dns_workers |-> 25, http_workers |-> 25, port_workers |-> 100,
   http_timeout |-> 10, http_retries |-> 2, http_rate |-> 20, follow_redirects |-> TRUE,
   resolvers |-> <<"1.1.1.1:53", "8.8.8.8:53">>, dns_timeout |-> 5, dns_retries |-> 2,
   protocol |-> "udp", dns_rate |-> 50]

\* The settings that have a NETT_ variable: what it holds is copied, taken apart at
\* commas, or parsed.
EnvTexts == {"project", "data_dir", "log_level", "log_format", "protocol"}
EnvLists == {"resolvers"}
EnvParsed == {"global", "http_timeout", "http_retries", "http_rate", "follow_redirects", "dns_timeout"}

\* Validate, which makes all its checks.
Valid(cfg) ==
  /\ cfg.project # BlankText /\ cfg.data_dir # BlankText
  /\ cfg.log_level \in {"debug", "info", "warn", "error"}
  /\ cfg.log_format \in {"text", "json"}
  /\ cfg.protocol \in {"udp", "tcp", "doh", "dot"}
  /\ \A s \in {"global", "dns_workers", "http_workers", "port_workers", "http_timeout",
               "dns_timeout"} : cfg[s] > 0
  /\ \A s \in {"http_retries", "dns_retries", "http_rate", "dns_rate"} : cfg[s] >= 0
  /\ cfg.resolvers # <<>>

\* A layer laid over what is below it.
Over(layer, below) ==
  [s \in DOMAIN layer \union DOMAIN below |-> IF s \in DOMAIN layer THEN layer[s] ELSE below[s]]

ConfigFails == [ok |-> FALSE]
Configured(cfg) == [ok |-> TRUE, cfg |-> cfg]

\* mergeFile decodes into the defaults: only keys of the file override.
MergeFile(cfg, file) == IF file = Unreadable THEN ConfigFails ELSE Configured(Over(file, cfg))

\* A list given as what is between its commas.
SplitCSV(parts) == SelectSeq(parts, LAMBDA p : p # BlankText)

ApplyEnv(cfg, env) ==
  IF \E s \in DOMAIN env \intersect EnvParsed : env[s] = NotANumber THEN ConfigFails
  ELSE LET read == [s \in DOMAIN env |-> IF s \in EnvLists THEN SplitCSV(env[s]) ELSE env[s]]
       IN  Configured(Over(read, cfg))

Load(file, env) ==
  LET f == MergeFile(Default, file)
      e == IF f.ok THEN ApplyEnv(f.cfg, env) ELSE ConfigFails
  IN  IF e.ok /\ Valid(e.cfg) THEN e ELSE ConfigFails
==============================================================================
