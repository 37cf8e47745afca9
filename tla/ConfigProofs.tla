---------------------------- MODULE ConfigProofs ----------------------------
(***************************************************************************)
(* Proofs about the settings the server runs on, for every width of an     *)
(* integer, every unit and every file: a size that LoadConfig accepted is  *)
(* the one that was written, unless the product left the integers.         *)
(*                                                                         *)
(* SizesAsWritten is arithmetic: a product that is an integer is its own   *)
(* value, and one just above them wraps to a negative number, which is     *)
(* refused.  ConfigInv adds what was given and that it was accepted, since *)
(* the settings in use no longer show how they were written.               *)
(***************************************************************************)
EXTENDS Config, TLAPS

-----------------------------------------------------------------------------
(* Arithmetic of the products *)

LEMMA MaxIntType == MaxInt \in Nat /\ 2 * MaxInt + 2 = IntRange
  BY ConfigAssumption DEF MaxInt

\* An integer is kept, and the ones just above become negative.
LEMMA WrappedIs ==
  ASSUME NEW n \in Int
  PROVE  /\ n \in Int64 => Wrapped(n) = n
         /\ n > MaxInt /\ n < IntRange => Wrapped(n) < 0
  <1>1. MaxInt \in Nat /\ IntRange \in Nat /\ IntRange = 2 * MaxInt + 2
    BY MaxIntType, ConfigAssumption
  <1>2. ASSUME n \in Int64 PROVE Wrapped(n) = n
    BY <1>1, <1>2 DEF Int64, Wrapped
  <1>3. ASSUME n > MaxInt, n < IntRange PROVE Wrapped(n) < 0
    <2>1. (n + MaxInt + 1) % IntRange = n + MaxInt + 1 - IntRange
      BY <1>1, <1>3
    <2>2. QED
      BY <1>1, <1>3, <2>1 DEF Wrapped
  <1>4. QED
    BY <1>2, <1>3

LEMMA ProductType ==
  ASSUME NEW size, size.number \in Int, size.unit \in 0 .. 3
  PROVE  Product(size) \in Int
  <1>1. Kilo \in Nat
    BY ConfigAssumption
  <1>2. \A x, y \in Int : x * y \in Int
    OBVIOUS
  <1>3. Kilo * Kilo \in Int
    BY <1>1, <1>2
  <1>4. Kilo * Kilo * Kilo \in Int
    BY <1>1, <1>2, <1>3
  <1>5. Multiplier(size.unit) \in Int
    BY <1>1, <1>3, <1>4 DEF Multiplier
  <1>6. QED
    BY <1>2, <1>5 DEF Product

\* A size that is accepted is the product, or the product is far off.
LEMMA AcceptedSize ==
  ASSUME NEW size, size.number \in Int \cup {Malformed}, size.unit \in 0 .. 3, SizeOk(size)
  PROVE  /\ ParseSize(size) >= 0
         /\ \/ ParseSize(size) = Product(size)
            \/ Product(size) >= IntRange \/ Product(size) < -MaxInt - 1
  <1>1. Product(size) \in Int /\ MaxInt \in Nat /\ IntRange \in Nat
    BY ProductType, MaxIntType, ConfigAssumption DEF SizeOk, IsNumber
  <1>2. Wrapped(Product(size)) >= 0 /\ ParseSize(size) = Wrapped(Product(size))
    BY DEF SizeOk, ParseSize
  <1>3. CASE Product(size) \in Int64
    BY <1>1, <1>2, <1>3, WrappedIs
  <1>4. CASE Product(size) > MaxInt /\ Product(size) < IntRange
    <2>1. Wrapped(Product(size)) < 0
      BY <1>1, <1>4, WrappedIs
    <2>2. Wrapped(Product(size)) \in Int
      BY <1>1, ConfigAssumption DEF Wrapped
    <2>3. QED
      BY <1>2, <2>1, <2>2
  <1>5. Product(size) < -MaxInt - 1 \/ Product(size) >= IntRange
        \/ Product(size) \in Int64 \/ (Product(size) > MaxInt /\ Product(size) < IntRange)
    BY <1>1 DEF Int64
  <1>6. QED
    BY <1>2, <1>3, <1>4, <1>5

-----------------------------------------------------------------------------
(* The settings *)

LEMMA SettingsType ==
  ASSUME NEW file \in Files, file # Unreadable, NEW port \in Ports
  PROVE  /\ DOMAIN Settings(file, port) = SettingNames
         /\ \A f \in SettingNames : Settings(file, port)[f] \in Texts(f)
  <1>1. DOMAIN file \subseteq SettingNames /\ \A f \in DOMAIN file : file[f] \in Texts(f)
    BY SettingsAssumption
  <1>2. ASSUME NEW f \in SettingNames PROVE Defaults[f] \in Texts(f)
    <2>1. MaxInt \in Nat /\ MaxInt >= 1
      BY MaxIntType, ConfigAssumption
    <2>2. CASE f \in {"segment", "buffer"}
      <3>1. Texts(f) = [number : Int \cup {Malformed}, unit : 0 .. 3]
        BY <2>2 DEF Texts
      <3>2. Defaults[f] = Size(3, 2) \/ Defaults[f] = Size(2, 1)
        BY <2>2 DEF Defaults
      <3>3. QED
        BY <3>1, <3>2 DEF Size
    <2>3. CASE f \in {"port", "retention", "index", "cleanup"}
      BY <2>1, <2>3 DEF Defaults, Texts, Int64
    <2>4. QED
      BY <2>2, <2>3 DEF SettingNames
  <1>3. ASSUME NEW f \in SettingNames PROVE Settings(file, port)[f] \in Texts(f)
    <2>1. Settings(file, port)[f] =
            IF f = "port" /\ IsNumber(port) THEN port
            ELSE IF f \in DOMAIN file THEN file[f] ELSE Defaults[f]
      BY DEF Settings
    <2>2. CASE f = "port" /\ IsNumber(port)
      BY <2>1, <2>2 DEF Texts, IsNumber
    <2>3. CASE ~(f = "port" /\ IsNumber(port))
      BY <1>1, <1>2, <2>1, <2>3
    <2>4. QED
      BY <2>2, <2>3
  <1>4. DOMAIN Settings(file, port) = SettingNames
    BY DEF Settings
  <1>5. QED
    BY <1>3, <1>4

\* The sizes in use are those that were given, and these were accepted.
ConfigInv ==
  process \in {"loaded", "running"} =>
    \A f \in {"segment", "buffer"} :
      /\ given[f].number \in Int \cup {Malformed} /\ given[f].unit \in 0 .. 3
      /\ SizeOk(given[f]) /\ config[f] = ParseSize(given[f])

LEMMA LoadedConfig ==
  ASSUME NEW file \in Files, NEW port \in Ports, LoadConfig(file, port)
  PROVE  ConfigInv'
  <1> DEFINE s == Settings(file, port)
  <1>1. CASE file # Unreadable /\ Valid(s)
    <2>1. DOMAIN s = SettingNames /\ \A f \in SettingNames : s[f] \in Texts(f)
      BY <1>1, SettingsType
    <2>2. /\ config' = [s EXCEPT !.segment = ParseSize(@), !.buffer = ParseSize(@)]
          /\ given' = s
          /\ process' = "loaded"
      BY <1>1 DEF LoadConfig
    <2>3. SizeOk(s.segment) /\ SizeOk(s.buffer)
      BY <1>1 DEF Valid
    <2> HIDE DEF s
    <2>4. config'.segment = ParseSize(s.segment) /\ config'.buffer = ParseSize(s.buffer)
      BY <2>1, <2>2 DEF SettingNames
    <2>5. ASSUME NEW f \in {"segment", "buffer"}
          PROVE  s[f].number \in Int \cup {Malformed} /\ s[f].unit \in 0 .. 3
      BY <2>1 DEF SettingNames, Texts
    <2>6. QED
      BY <2>2, <2>3, <2>4, <2>5 DEF ConfigInv, SizeOk, ParseSize
  <1>2. CASE ~(file # Unreadable /\ Valid(s))
    BY <1>2 DEF LoadConfig, ConfigInv
  <1>3. QED
    BY <1>1, <1>2

\* What was accepted stays so until the process ends.
THEOREM ConfigInvariant == ConfigSpec => []ConfigInv
  <1>1. ConfigInit => ConfigInv
    BY DEF ConfigInit, ConfigInv
  <1>2. ASSUME ConfigInv, [ConfigNext]_configVars PROVE ConfigInv'
    <2>1. CASE \E file \in Files, port \in Ports : LoadConfig(file, port)
      BY <2>1, LoadedConfig
    <2>2. CASE StartCleanup
      <3>1. process = "loaded" /\ UNCHANGED <<config, given>>
            /\ process' = IF config.cleanup <= 0 THEN "panicked" ELSE "running"
        BY <2>2 DEF StartCleanup
      <3>2. QED
        BY <1>2, <3>1 DEF ConfigInv, SizeOk, ParseSize
    <2>3. CASE StartAgain
      BY <2>3 DEF StartAgain, ConfigInv
    <2>4. CASE UNCHANGED configVars
      BY <1>2, <2>4 DEF configVars, ConfigInv, SizeOk, ParseSize
    <2>5. QED
      BY <1>2, <2>1, <2>2, <2>3, <2>4 DEF ConfigNext
  <1>3. QED
    BY <1>1, <1>2, PTL DEF ConfigSpec

\* A size the server runs with is the one that was written, for every number
\* and unit, unless the product left the integers by a whole range
\* (config.go:190-228).
THEOREM SizesAreAsWritten == ConfigSpec => []SizesAsWritten
  <1>1. ASSUME ConfigInv PROVE SizesAsWritten
    <2>1. ASSUME process \in {"loaded", "running"}, NEW f \in {"segment", "buffer"}
          PROVE  /\ config[f] >= 0
                 /\ \/ config[f] = Product(given[f])
                    \/ Product(given[f]) >= IntRange \/ Product(given[f]) < -MaxInt - 1
      <3>1. /\ given[f].number \in Int \cup {Malformed} /\ given[f].unit \in 0 .. 3
            /\ SizeOk(given[f]) /\ config[f] = ParseSize(given[f])
        BY <1>1, <2>1 DEF ConfigInv
      <3>2. QED
        BY <3>1, AcceptedSize
    <2>2. QED
      BY <2>1 DEF SizesAsWritten
  <1>2. QED
    BY <1>1, ConfigInvariant, PTL
=============================================================================
