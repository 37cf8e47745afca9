------------------------------- MODULE Config -------------------------------
(***************************************************************************)
(* The start of the server process of cmd/main.go: the settings of         *)
(* internal/config/config.go, from the defaults, the file and the          *)
(* environment, their validation, and the ticker the queue makes of them.  *)
(* A text is a number or Malformed, a size a number with a unit.  Settings *)
(* that are not validated (names, paths, the cluster) are left out.        *)
(***************************************************************************)
EXTENDS Integers

CONSTANTS
  IntRange,    \* number of values of an int64: 2^64 in the program
  Kilo,        \* 1024
  MaxPort,     \* 65535
  Malformed,   \* a text that is no number, or none at all
  Unreadable,  \* a file that is missing, or is no YAML for these settings
  Files,       \* the files LoadConfig may find: what they set, or Unreadable
  Ports        \* the texts YUCLASE_PORT may hold

ASSUME ConfigAssumption ==
  /\ {IntRange, Kilo, MaxPort} \subseteq Nat \ {0}
  /\ IntRange % 2 = 0 /\ IntRange >= 4
  /\ Malformed \notin Int

VARIABLES
  process,  \* "starting", "loaded", "running", or how it ended
  config,   \* the settings LoadConfig returned
  given     \* history: the settings it was given, as texts

configVars == <<process, config, given>>

MaxInt == IntRange \div 2 - 1
Int64 == -MaxInt - 1 .. MaxInt
Wrapped(n) == ((n + MaxInt + 1) % IntRange) - MaxInt - 1

Size(number, unit) == [number |-> number, unit |-> unit]

\* What may stand for a setting in a file that is YAML: texts for sizes and
\* durations, an int for the others.
Texts(setting) ==
  CASE setting \in {"segment", "buffer"} -> [number : Int \cup {Malformed}, unit : 0 .. 3]
    [] setting = "cleanup" -> Int64 \cup {Malformed}
    [] setting \in {"port", "retention", "index"} -> Int64

SettingNames == {"segment", "buffer", "port", "retention", "index", "cleanup"}

ASSUME SettingsAssumption ==
  /\ Ports \subseteq Int \cup {Malformed}
  /\ \A file \in Files \ {Unreadable} :
       /\ DOMAIN file \subseteq SettingNames
       /\ \A f \in DOMAIN file : file[f] \in Texts(f)

Defaults ==
  [segment |-> Size(3, 2), buffer |-> Size(2, 1), port |-> 1,
   retention |-> 1, index |-> 1, cleanup |-> 1]

\* What LoadConfig starts from; no error, and no settings either.
NoConfig == Defaults

ConfigInit ==
  /\ process = "starting"
  /\ config = NoConfig
  /\ given = Defaults

Multiplier(unit) ==
  CASE unit = 0 -> 1
    [] unit = 1 -> Kilo
    [] unit = 2 -> Kilo * Kilo
    [] unit = 3 -> Kilo * Kilo * Kilo

Product(size) == size.number * Multiplier(size.unit)

IsNumber(text) == text # Malformed /\ text \in Int64

\* Variant: the product is not looked at.
SizeOkUnchecked(size) == IsNumber(size.number)

\* parseSize: the product of two int64, taken for an overflow if negative.
SizeOk(size) == IsNumber(size.number) /\ Wrapped(Product(size)) >= 0
ParseSize(size) == Wrapped(Product(size))

\* The file overrides the defaults, and a port from the environment both,
\* if it is a number.
Settings(file, port) ==
  [f \in SettingNames |->
     IF f = "port" /\ IsNumber(port) THEN port
     ELSE IF f \in DOMAIN file THEN file[f]
     ELSE Defaults[f]]

Valid(s) ==
  /\ SizeOk(s.segment)
  /\ SizeOk(s.buffer)
  /\ s.cleanup # Malformed
  /\ s.port \in 1 .. MaxPort
  /\ s.retention > 0
  /\ s.index > 0

LoadConfig(file, port) ==
  /\ process = "starting"
  /\ IF file # Unreadable /\ Valid(Settings(file, port))
     THEN LET s == Settings(file, port)
          IN  /\ config' = [s EXCEPT !.segment = ParseSize(@), !.buffer = ParseSize(@)]
              /\ given' = s
              /\ process' = "loaded"
     ELSE process' = "failed" /\ UNCHANGED <<config, given>>

\* startCleanup: NewTicker panics unless the interval is positive.
StartCleanup ==
  /\ process = "loaded"
  /\ process' = IF config.cleanup <= 0 THEN "panicked" ELSE "running"
  /\ UNCHANGED <<config, given>>

\* The process has ended, or is ended, and is started again.
StartAgain ==
  /\ process \in {"failed", "panicked", "running"}
  /\ process' = "starting"
  /\ config' = NoConfig
  /\ given' = Defaults

ConfigNext ==
  \/ \E file \in Files, port \in Ports : LoadConfig(file, port)
  \/ StartCleanup
  \/ StartAgain

ConfigSpec == ConfigInit /\ [][ConfigNext]_configVars

-----------------------------------------------------------------------------
(* Properties *)

\* A size that was accepted is what was written, or was so large that the
\* product wrapped right past the negative numbers the check refuses
\* (config.go:221-224).
SizesAsWritten ==
  process \in {"loaded", "running"} =>
    \A f \in {"segment", "buffer"} :
      /\ config[f] >= 0
      /\ \/ config[f] = Product(given[f])
         \/ Product(given[f]) >= IntRange \/ Product(given[f]) < -MaxInt - 1
=============================================================================
