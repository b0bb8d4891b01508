-------------------------- MODULE InterruptsProofs --------------------------
(***************************************************************************)
(* Proofs about Interrupts and Keyboard, whatever keys a user strikes and  *)
(* whenever the devices raise their lines: no modifier is stuck, no        *)
(* shortcut is taken whose key is not struck, no byte is stuck in the      *)
(* keyboard controller, and every interrupt finds its handler.             *)
(***************************************************************************)
EXTENDS Interrupts, TLAPS

-----------------------------------------------------------------------------
(* The invariant                                                           *)

\* A byte that ends the code of a key.
IsKey(byte) ==
    /\ byte.code \notin {"e0", "none", "ctrl_l", "ctrl_r", "alt_l", "alt_r"}
    /\ byte.up \in BOOLEAN

(***************************************************************************)
(* What the decoder has made of the bytes so far.  While both keys of a    *)
(* kind are down the observer knows of it, and the driver never counts     *)
(* more ESC in a row than there were strikes and repeats.                  *)
(***************************************************************************)
KeyboardSound ==
    /\ ModifiersFollow
    /\ pairs \subseteq {"ctrl", "alt"}
    /\ \A m \in {"ctrl", "alt"} : Modifiers[m] \subseteq held => m \in pairs
    /\ ESC_COUNTER \in Nat /\ esc_row \in Nat /\ esc_repeats \in Nat
    /\ ESC_COUNTER <= esc_row + esc_repeats
    /\ EffectMeant

(***************************************************************************)
(* What is between the keys and the decoder.  A byte is the prefix, or     *)
(* ends the code of a key, and the prefix is followed by the byte it       *)
(* belongs to; a key that goes up is one that was down.                    *)
(***************************************************************************)
PortSound ==
    \/ data_port = None
    \/ data_port = E0 /\ ~prefix
    \/ IsKey(data_port) /\ (data_port.up => KeyOf(data_port, prefix) \in held)

WireSound ==
    /\ prefix \in BOOLEAN
    /\ \/ wire = <<>> /\ data_port # E0 /\ (data_port = None => ~prefix)
       \/ \E key \in keys, up \in BOOLEAN :
             /\ up => Down(key)
             /\ \/ /\ wire = Bytes(key, up)
                   /\ data_port # E0 /\ (data_port = None => ~prefix)
                \/ /\ key \in {"ctrl_r", "alt_r"}
                   /\ wire = <<[code |-> Code(key), up |-> up]>>
                   /\ data_port = E0 \/ (data_port = None /\ prefix)

\* The lines that have a handler are those that the controller passes on.
Registered ==
    CASE at.step = "timer_init" -> {}
      [] at.step = "keyboard_init" -> {IRQ_TIMER}
      [] at.step = "ksyscall_init" -> {IRQ_TIMER, IRQ_KEYBOARD}
      [] OTHER -> {IRQ_TIMER, IRQ_KEYBOARD, IRQ_SYSCALL}

DispatchSound ==
    /\ irq_handlers = Registered
    /\ mask = [port \in {PIC1_DATA, PIC2_DATA} |->
                 IF port = PIC1_DATA THEN {line \in 0 .. 7 : 32 + line \notin Registered}
                 ELSE 0 .. 7]
    /\ at.step = "handler" => at.irq \in irq_handlers
    /\ at.step # "panic"

DeviceInv ==
    /\ keys \in KeySets
    /\ KeyboardSound
    /\ PortSound
    /\ WireSound
    /\ NoByteStuck
    /\ DispatchSound

-----------------------------------------------------------------------------
(* The bytes of a key                                                      *)

LEMMA ModifierKeys ==
    /\ DOMAIN Modifiers = {"ctrl", "alt", "shift_l", "shift_r"}
    /\ Modifiers.ctrl = {"ctrl_l", "ctrl_r"} /\ Modifiers["ctrl"] = {"ctrl_l", "ctrl_r"}
    /\ Modifiers.alt = {"alt_l", "alt_r"} /\ Modifiers["alt"] = {"alt_l", "alt_r"}
    /\ Modifiers["shift_l"] = {"shift_l"} /\ Modifiers["shift_r"] = {"shift_r"}
BY DEF Modifiers

LEMMA KeyNames == \A key \in Keys : key \notin {"e0", "none", "ctrl", "alt"}
<1> DEFINE Mods == {Modifiers[m] : m \in DOMAIN Modifiers}
<1>1. ASSUME NEW key \in UNION Mods PROVE key \notin {"e0", "none", "ctrl", "alt"}
  <2>1. PICK m \in DOMAIN Modifiers : key \in Modifiers[m]
    BY <1>1
  <2>2. m \in {"ctrl", "alt", "shift_l", "shift_r"}
    BY <2>1, ModifierKeys
  <2> QED
    BY <2>1, <2>2, ModifierKeys
<1>2. \A key \in Locks \cup Letters \cup Symbols \cup {"esc", "pad7", "padminus"} :
         key \notin {"e0", "none", "ctrl", "alt"}
  BY DEF Locks, Letters, Symbols, Digits
<1>3. ASSUME NEW key \in Keys
      PROVE  \/ key \in UNION Mods
             \/ key \in Locks \cup Letters \cup Symbols \cup {"esc", "pad7", "padminus"}
  BY <1>3, Zenon DEF Keys
<1> HIDE DEF Mods
<1> QED
  BY <1>1, <1>2, <1>3

\* The code of a key, and the key behind it.
LEMMA CodeFacts ==
    ASSUME NEW key \in Keys, NEW up \in BOOLEAN, NEW byte, byte = [code |-> Code(key), up |-> up]
    PROVE  /\ IsKey(byte) /\ byte.up = up /\ byte # None /\ byte # E0
           /\ KeyOf(byte, key \in {"ctrl_r", "alt_r"}) = key
<1>1. key # "e0" /\ key # "none"
  BY KeyNames
<1>2. CASE key \in {"ctrl_l", "ctrl_r"}
  BY <1>2, ModifierKeys DEF Code, IsKey, None, E0, KeyOf
<1>3. CASE key \in {"alt_l", "alt_r"}
  BY <1>3, ModifierKeys DEF Code, IsKey, None, E0, KeyOf
<1>4. CASE key \notin {"ctrl_l", "ctrl_r", "alt_l", "alt_r"}
  <2>1. Code(key) = key
    BY <1>4, ModifierKeys DEF Code
  <2>2. CASE key \notin {"ctrl", "alt"}
    BY <1>1, <1>4, <2>1, <2>2 DEF IsKey, None, E0, KeyOf
  <2>3. key \notin {"ctrl", "alt"}
    BY KeyNames
  <2> QED
    BY <2>2, <2>3
<1> QED
  BY <1>2, <1>3, <1>4

-----------------------------------------------------------------------------
(* keyboard_decode                                                         *)

\* The prefix changes nothing but the meaning of the next byte.
LEMMA DecodePrefix ==
    ASSUME KeyboardSound, keyboard_decode(E0)
    PROVE  /\ KeyboardSound'
           /\ prefix' = TRUE /\ held' = held /\ effect' = "nothing"
<1>1. E0.code = "e0" /\ E0.up = FALSE
  BY DEF E0
<1>2. Decoded(E0) = KEY_NULL
  BY <1>1 DEF Decoded, Symbols, Digits, Letters
<1>3. KEY_NULL # <<"esc", "plain">>
  BY DEF KEY_NULL
<1>4. FlagsAfter(E0) = flags
  BY <1>1, ModifierKeys DEF FlagsAfter, Locks
<1>5. EscCount(E0, KEY_NULL) = 0
  <2>1. E0 # [code |-> "esc", up |-> TRUE]
    BY DEF E0
  <2> QED
    BY <1>3, <2>1 DEF EscCount
<1>6. /\ flags' = flags /\ ESC_COUNTER' = 0 /\ effect' = "nothing"
      /\ prefix' = TRUE /\ UNCHANGED <<held, pairs, esc_row, esc_repeats>>
  BY <1>2, <1>3, <1>4, <1>5 DEF keyboard_decode, Observe
<1>7. ModifiersFollow' /\ EffectMeant'
  BY <1>6 DEF KeyboardSound, ModifiersFollow, EffectMeant, StruckWith
<1> QED
  BY <1>6, <1>7 DEF KeyboardSound

\* What the observers see.
LEMMA ObserveFacts ==
    ASSUME NEW byte, IsKey(byte), Observe(byte)
    PROVE  LET key == KeyOf(byte, prefix)
           IN  /\ prefix' = FALSE
               /\ held' = IF byte.up THEN held \ {key} ELSE held \cup {key}
               /\ \A m \in {"ctrl", "alt"} : m \in pairs' <=>
                     \/ Modifiers[m] \subseteq held'
                     \/ m \in pairs /\ Modifiers[m] \cap held' # {}
               /\ pairs' \subseteq {"ctrl", "alt"}
               /\ byte.up => esc_row' = esc_row /\ esc_repeats' = esc_repeats
               /\ ~byte.up => struck' = key
               /\ ~byte.up /\ key = "esc" =>
                     \/ esc_row' = esc_row + 1 /\ esc_repeats' = esc_repeats
                     \/ esc_row' = esc_row /\ esc_repeats' = esc_repeats + 1
               /\ ~byte.up /\ key # "esc" => esc_row' = 0 /\ esc_repeats' = 0
<1> DEFINE key == KeyOf(byte, prefix)
           now == IF byte.up THEN held \ {key} ELSE held \cup {key}
<1>1. byte # E0
  BY DEF IsKey, E0
<1>2. /\ prefix' = FALSE
      /\ held' = now
      /\ pairs' = {m \in {"ctrl", "alt"} :
                     Modifiers[m] \subseteq now \/ (m \in pairs /\ ~(Modifiers[m] \cap now = {}))}
      /\ struck' = IF byte.up THEN "none" ELSE key
      /\ esc_row' = IF byte.up THEN esc_row ELSE IF key # "esc" THEN 0
                    ELSE IF key \notin held THEN esc_row + 1 ELSE esc_row
      /\ esc_repeats' = IF byte.up THEN esc_repeats ELSE IF key # "esc" THEN 0
                        ELSE IF key \in held THEN esc_repeats + 1 ELSE esc_repeats
  BY <1>1, Zenon DEF Observe
<1>3. byte.up \in BOOLEAN
  BY DEF IsKey
<1>4. /\ byte.up => esc_row' = esc_row /\ esc_repeats' = esc_repeats
      /\ ~byte.up => struck' = key
      /\ ~byte.up /\ key = "esc" =>
            \/ esc_row' = esc_row + 1 /\ esc_repeats' = esc_repeats
            \/ esc_row' = esc_row /\ esc_repeats' = esc_repeats + 1
      /\ ~byte.up /\ key # "esc" => esc_row' = 0 /\ esc_repeats' = 0
  <2> HIDE DEF key
  <2> QED
    BY <1>2, <1>3
<1>5. held' = now /\ pairs' = {m \in {"ctrl", "alt"} :
           Modifiers[m] \subseteq held' \/ (m \in pairs /\ ~(Modifiers[m] \cap held' = {}))}
  BY <1>2
<1>6. \A m \in {"ctrl", "alt"} : m \in pairs' <=>
         \/ Modifiers[m] \subseteq held'
         \/ m \in pairs /\ Modifiers[m] \cap held' # {}
  <2> HIDE DEF now, key
  <2> QED
    BY <1>5
<1>7. pairs' \subseteq {"ctrl", "alt"}
  <2> HIDE DEF now, key
  <2> QED
    BY <1>5
<1> QED
  BY <1>2, <1>4, <1>6, <1>7

\* The keys that a byte is about.
LEMMA KeyFacts ==
    ASSUME NEW byte, IsKey(byte)
    PROVE  /\ byte.code = "ctrl" => KeyOf(byte, prefix) \in {"ctrl_l", "ctrl_r"}
           /\ byte.code = "alt" => KeyOf(byte, prefix) \in {"alt_l", "alt_r"}
           /\ byte.code \notin {"ctrl", "alt"} => KeyOf(byte, prefix) = byte.code
BY DEF IsKey, KeyOf

LEMMA FlagFacts ==
    ASSUME NEW byte, NEW m \in DOMAIN Modifiers
    PROVE  m \in FlagsAfter(byte) <=> IF byte.code = m THEN ~byte.up ELSE m \in flags
<1>1. m \notin Locks
  BY ModifierKeys DEF Locks
<1> QED
  BY <1>1 DEF FlagsAfter, Modifier, Toggled

LEMMA ModifiersKept ==
    ASSUME KeyboardSound, NEW byte, IsKey(byte), flags' = FlagsAfter(byte), Observe(byte),
           byte.up => KeyOf(byte, prefix) \in held
    PROVE  /\ ModifiersFollow'
           /\ \A m \in {"ctrl", "alt"} : Modifiers[m] \subseteq held' => m \in pairs'
<1> DEFINE key == KeyOf(byte, prefix)
<1>1. /\ held' = IF byte.up THEN held \ {key} ELSE held \cup {key}
      /\ \A m \in {"ctrl", "alt"} : m \in pairs' <=>
            \/ Modifiers[m] \subseteq held'
            \/ m \in pairs /\ Modifiers[m] \cap held' # {}
  BY ObserveFacts
<1>2. \A m \in DOMAIN Modifiers : m \in flags' <=> IF byte.code = m THEN ~byte.up ELSE m \in flags
  BY FlagFacts
<1>3. byte.up \in BOOLEAN /\ byte.code \notin {"ctrl_l", "ctrl_r", "alt_l", "alt_r"}
  BY DEF IsKey
<1>4. /\ byte.code = "ctrl" => key \in {"ctrl_l", "ctrl_r"}
      /\ byte.code = "alt" => key \in {"alt_l", "alt_r"}
      /\ byte.code \notin {"ctrl", "alt"} => key = byte.code
  BY KeyFacts
<1>5. /\ \A m \in {"ctrl", "alt"} : Modifiers[m] \subseteq held => m \in pairs
      /\ \A m \in DOMAIN Modifiers :
            /\ m \in flags => Modifiers[m] \cap held # {}
            /\ m \notin flags /\ m \notin pairs => Modifiers[m] \cap held = {}
      /\ pairs \subseteq {"ctrl", "alt"}
  BY DEF KeyboardSound, ModifiersFollow
<1>6. byte.up => key \in held
  OBVIOUS
<1> HIDE DEF key
<1>7. ASSUME NEW m \in DOMAIN Modifiers, byte.code # m
      PROVE  Modifiers[m] \cap held' = Modifiers[m] \cap held
  <2>1. key \notin Modifiers[m]
    BY <1>3, <1>4, <1>7, ModifierKeys
  <2> QED
    BY <1>1, <2>1
<1>8. ASSUME NEW m \in DOMAIN Modifiers
      PROVE  /\ m \in flags' => Modifiers[m] \cap held' # {}
             /\ m \notin flags' /\ m \notin pairs' => Modifiers[m] \cap held' = {}
  <2>1. CASE byte.code # m
    <3>1. (m \in flags' <=> m \in flags) /\ Modifiers[m] \cap held' = Modifiers[m] \cap held
      BY <1>2, <1>7, <2>1
    <3>2. ASSUME m \notin flags', m \notin pairs' PROVE Modifiers[m] \cap held' = {}
      <4>1. CASE m \in {"ctrl", "alt"}
        BY <1>1, <1>5, <3>1, <3>2, <4>1
      <4>2. CASE m \notin {"ctrl", "alt"}
        <5>1. m \in {"shift_l", "shift_r"}
          BY <4>2, ModifierKeys
        <5> QED
          BY <1>5, <3>1, <3>2, <5>1
      <4> QED
        BY <4>1, <4>2
    <3> QED
      BY <1>5, <3>1, <3>2
  <2>2. CASE byte.code = m /\ ~byte.up
    <3>1. key \in Modifiers[m] /\ key \in held' /\ m \in flags'
      BY <1>1, <1>2, <1>4, <2>2, ModifierKeys
    <3> QED
      BY <3>1
  <2>3. CASE byte.code = m /\ byte.up
    <3>1. m \notin flags' /\ held' = held \ {key} /\ key \in held
      BY <1>1, <1>2, <1>6, <2>3
    <3>2. ASSUME m \notin pairs' PROVE Modifiers[m] \cap held' = {}
      <4>1. CASE m \in {"ctrl", "alt"}
        <5>1. CASE m \in pairs
          BY <1>1, <3>2, <4>1, <5>1
        <5>2. CASE m \notin pairs
          <6>1. ~ (Modifiers[m] \subseteq held) /\ key \in Modifiers[m]
            BY <1>4, <1>5, <2>3, <4>1, <5>2, ModifierKeys
          <6> QED
            BY <3>1, <4>1, <6>1, ModifierKeys
        <5> QED
          BY <5>1, <5>2
      <4>2. CASE m \in {"shift_l", "shift_r"}
        BY <1>4, <2>3, <3>1, <4>2, ModifierKeys
      <4> QED
        BY <4>1, <4>2, ModifierKeys
    <3> QED
      BY <3>1, <3>2
  <2> QED
    BY <1>3, <2>1, <2>2, <2>3
<1> QED
  BY <1>1, <1>8 DEF ModifiersFollow

\* Which byte is an ESC, and which has no character.
LEMMA DecodedFacts ==
    ASSUME NEW byte, IsKey(byte)
    PROVE  /\ Decoded(byte) = <<"esc", "plain">> <=> ~byte.up /\ byte.code = "esc"
           /\ Decoded(byte) # KEY_NULL => ~byte.up
           /\ Decoded(byte) = <<"esc", "plain">> => Decoded(byte) # KEY_NULL
<1>1. byte.up \in BOOLEAN
  BY DEF IsKey
<1>2. KEY_NULL # <<"esc", "plain">>
  BY DEF KEY_NULL
<1>3. CASE byte.up
  BY <1>2, <1>3 DEF Decoded
<1>4. CASE ~byte.up /\ byte.code = "esc"
  <2>1. Decoded(byte) = <<"esc", "plain">>
    BY <1>4 DEF Decoded, Symbols, Digits, Letters
  <2> QED
    BY <1>2, <1>4, <2>1
<1>5. CASE ~byte.up /\ byte.code # "esc"
  <2>1. \A symbol : symbol # "esc" => /\ shift_decode(symbol) # <<"esc", "plain">>
                                      /\ letter_decode(symbol) # <<"esc", "plain">>
    BY DEF shift_decode, letter_decode
  <2>2. numlock_decode("7", "home") # <<"esc", "plain">>
    BY DEF numlock_decode
  <2>3. <<"minus", "plain">> # <<"esc", "plain">>
    OBVIOUS
  <2>4. \/ Decoded(byte) = shift_decode(byte.code)
        \/ Decoded(byte) = letter_decode(byte.code)
        \/ Decoded(byte) = numlock_decode("7", "home")
        \/ Decoded(byte) = <<"minus", "plain">>
        \/ Decoded(byte) = KEY_NULL
    BY <1>5 DEF Decoded
  <2>5. Decoded(byte) # <<"esc", "plain">>
    BY <1>2, <1>5, <2>1, <2>2, <2>3, <2>4
  <2> QED
    BY <1>2, <1>5, <2>5
<1> QED
  BY <1>1, <1>3, <1>4, <1>5

\* The characters of a key are not those of the shortcuts of another.
LEMMA SymbolFacts ==
    ASSUME NEW byte, IsKey(byte)
    PROVE  LET d == Decoded(byte)
               key == KeyOf(byte, prefix)
           IN  /\ d = <<"minus", "plain">> => key \in {"minus", "padminus"}
               /\ d = <<"equal", "plain">> => key = "equal"
               /\ d = <<"n", "plain">> => key = "n"
               /\ d = <<"q", "plain">> => key = "q"
               /\ d \in Digits \X {"plain"} => key \in {"1", "7", "pad7"}
<1> DEFINE d == Decoded(byte)
           code == byte.code
<1>1. ASSUME NEW symbol, d = <<symbol, "plain">>
      PROVE  \/ code = symbol /\ code \in Symbols \cup Letters \cup {"esc"}
             \/ code = "pad7" /\ symbol \in {"7", "home"}
             \/ code = "padminus" /\ symbol = "minus"
  <2>1. d # KEY_NULL
    <3>1. \A x, y : <<x, y>> # <<>>
      OBVIOUS
    <3> QED
      BY <1>1, <3>1 DEF KEY_NULL
  <2>2. ~byte.up
    BY <2>1, DecodedFacts
  <2>3. CASE code = "esc"
    <3>1. d = <<"esc", "plain">>
      BY <2>2, <2>3, DecodedFacts
    <3>2. symbol = "esc"
      BY <1>1, <3>1
    <3> QED
      BY <2>3, <3>2
  <2>4. CASE code \in Symbols
    BY <1>1, <2>2, <2>4 DEF Decoded, shift_decode, Symbols, Digits, Letters
  <2>5. CASE code \in Letters
    BY <1>1, <2>2, <2>5 DEF Decoded, letter_decode, Letters, Symbols, Digits
  <2>6. CASE code = "pad7"
    BY <1>1, <2>2, <2>6 DEF Decoded, numlock_decode, Letters, Symbols, Digits
  <2>7. CASE code = "padminus"
    BY <1>1, <2>2, <2>7 DEF Decoded, Letters, Symbols, Digits
  <2>8. CASE code \notin Symbols \cup Letters \cup {"esc", "pad7", "padminus"}
    <3>1. d = KEY_NULL
      BY <2>2, <2>8 DEF Decoded
    <3> QED
      BY <2>1, <3>1
  <2> QED
    BY <2>3, <2>4, <2>5, <2>6, <2>7, <2>8
<1>2. code \in Symbols \cup Letters \cup {"esc", "pad7", "padminus"} => KeyOf(byte, prefix) = code
  BY KeyFacts DEF Symbols, Letters, Digits
<1>3. \A symbol \in Digits : symbol \in {"1", "7"}
  BY DEF Digits
<1>4. ASSUME d \in Digits \X {"plain"} PROVE \E symbol \in {"1", "7"} : d = <<symbol, "plain">>
  BY <1>3, <1>4
<1> HIDE DEF d, code
<1>5. d = <<"minus", "plain">> => code \in {"minus", "padminus"}
  BY <1>1
<1>6. /\ d = <<"equal", "plain">> => code = "equal"
      /\ d = <<"n", "plain">> => code = "n"
      /\ d = <<"q", "plain">> => code = "q"
  BY <1>1
<1>7. d \in Digits \X {"plain"} => code \in {"1", "7", "pad7"}
  BY <1>1, <1>4
<1> QED
  BY <1>2, <1>5, <1>6, <1>7 DEF d, Symbols, Letters, Digits

\* The driver's counter stays below the number of ESC in a row.
LEMMA EscKept ==
    ASSUME KeyboardSound, NEW byte, IsKey(byte), Observe(byte),
           ESC_COUNTER' = EscCount(byte, Decoded(byte))
    PROVE  /\ ESC_COUNTER' \in Nat /\ esc_row' \in Nat /\ esc_repeats' \in Nat
           /\ ESC_COUNTER' <= esc_row' + esc_repeats'
<1>1. /\ ESC_COUNTER \in Nat /\ esc_row \in Nat /\ esc_repeats \in Nat
      /\ ESC_COUNTER <= esc_row + esc_repeats
  BY DEF KeyboardSound
<1>2. byte.up \in BOOLEAN
  BY DEF IsKey
<1> DEFINE key == KeyOf(byte, prefix)
<1>3. /\ byte.up => esc_row' = esc_row /\ esc_repeats' = esc_repeats
      /\ ~byte.up /\ key = "esc" =>
            \/ esc_row' = esc_row + 1 /\ esc_repeats' = esc_repeats
            \/ esc_row' = esc_row /\ esc_repeats' = esc_repeats + 1
      /\ ~byte.up /\ key # "esc" => esc_row' = 0 /\ esc_repeats' = 0
  BY ObserveFacts
<1>4. byte.code = "esc" => key = "esc"
  BY KeyFacts
<1> HIDE DEF key
<1>5. esc_row' \in Nat /\ esc_repeats' \in Nat
  BY <1>1, <1>2, <1>3
<1>6. CASE ~byte.up /\ byte.code = "esc"
  <2>1. ESC_COUNTER' = ESC_COUNTER + 1
    BY <1>6, DecodedFacts DEF EscCount
  <2>2. esc_row' + esc_repeats' = esc_row + esc_repeats + 1
    BY <1>1, <1>3, <1>4, <1>6
  <2>3. ESC_COUNTER' \in Nat /\ ESC_COUNTER + 1 <= esc_row + esc_repeats + 1
    BY <1>1, <2>1
  <2> QED
    BY <1>5, <2>1, <2>2, <2>3
<1>7. CASE byte = [code |-> "esc", up |-> TRUE]
  <2>1. ESC_COUNTER' = ESC_COUNTER
    BY <1>7, DecodedFacts DEF EscCount
  <2> QED
    BY <1>1, <1>3, <1>5, <1>7, <2>1
<1>8. CASE ~(~byte.up /\ byte.code = "esc") /\ byte # [code |-> "esc", up |-> TRUE]
  <2>1. ESC_COUNTER' = 0
    BY <1>8, DecodedFacts DEF EscCount
  <2>2. 0 <= esc_row' + esc_repeats'
    <3>1. \A m, n \in Nat : 0 <= m + n
      OBVIOUS
    <3> QED
      BY <1>5, <3>1
  <2>3. ESC_COUNTER' \in Nat
    BY <2>1
  <2> QED
    BY <1>5, <2>1, <2>2, <2>3
<1> QED
  BY <1>6, <1>7, <1>8

\* A command means that a modifier is on, and so one of its keys down, and that
\* its character has come.
LEMMA CommandFacts ==
    ASSUME NEW d
    PROVE  /\ Command(d) # "exit" /\ Command(d) # "nothing"
           /\ Command(d) = "quieter" => "ctrl" \in flags /\ d = <<"minus", "plain">>
           /\ Command(d) = "louder" => "ctrl" \in flags /\ d = <<"equal", "plain">>
           /\ Command(d) = "select" => "alt" \in flags /\ d \in Digits \X {"plain"}
           /\ Command(d) = "create" => "ctrl" \in flags /\ d = <<"n", "plain">>
           /\ Command(d) = "destroy" => "ctrl" \in flags /\ d = <<"q", "plain">>
BY DEF Command, Ctrl, Alt

LEMMA EffectKept ==
    ASSUME KeyboardSound, NEW byte, IsKey(byte), keyboard_decode(byte)
    PROVE  EffectMeant'
<1> DEFINE d == Decoded(byte)
           key == KeyOf(byte, prefix)
<1>1. /\ ESC_COUNTER' = EscCount(byte, d) /\ Observe(byte)
      /\ effect' = IF ESC_COUNTER' = 3 /\ d = <<"esc", "plain">> THEN "exit"
                   ELSE IF d = KEY_NULL THEN "nothing" ELSE Command(d)
  BY Zenon DEF keyboard_decode
<1>2. /\ ESC_COUNTER' \in Nat /\ esc_row' \in Nat /\ esc_repeats' \in Nat
      /\ ESC_COUNTER' <= esc_row' + esc_repeats'
  BY <1>1, EscKept
<1>3. /\ d # KEY_NULL => ~byte.up
      /\ d = <<"esc", "plain">> => ~byte.up /\ byte.code = "esc"
  BY DecodedFacts
<1>4. ~byte.up => held \subseteq held' /\ struck' = key
  BY <1>1, ObserveFacts
<1>5. /\ Command(d) # "exit" /\ Command(d) # "nothing"
      /\ Command(d) = "quieter" => "ctrl" \in flags /\ d = <<"minus", "plain">>
      /\ Command(d) = "louder" => "ctrl" \in flags /\ d = <<"equal", "plain">>
      /\ Command(d) = "select" => "alt" \in flags /\ d \in Digits \X {"plain"}
      /\ Command(d) = "create" => "ctrl" \in flags /\ d = <<"n", "plain">>
      /\ Command(d) = "destroy" => "ctrl" \in flags /\ d = <<"q", "plain">>
  BY CommandFacts
<1>6. /\ "ctrl" \in flags => Modifiers["ctrl"] \cap held # {}
      /\ "alt" \in flags => Modifiers["alt"] \cap held # {}
  BY ModifierKeys DEF KeyboardSound, ModifiersFollow
<1>7. /\ d = <<"minus", "plain">> => key \in {"minus", "padminus"}
      /\ d = <<"equal", "plain">> => key = "equal"
      /\ d = <<"n", "plain">> => key = "n"
      /\ d = <<"q", "plain">> => key = "q"
      /\ d \in Digits \X {"plain"} => key \in {"1", "7", "pad7"}
  BY SymbolFacts
<1>8. byte.code = "esc" => key = "esc"
  BY KeyFacts
<1> HIDE DEF d, key
<1>9. effect' = "exit" => struck' = "esc" /\ esc_row' + esc_repeats' >= 3
  BY <1>1, <1>2, <1>3, <1>4, <1>5, <1>8
<1>10. ASSUME effect' \notin {"exit", "nothing"}
       PROVE  effect' = Command(d) /\ struck' = key /\ held \subseteq held'
  BY <1>1, <1>3, <1>4, <1>10
<1>11. /\ "ctrl" \in flags /\ held \subseteq held' => Modifiers["ctrl"] \cap held' # {}
       /\ "alt" \in flags /\ held \subseteq held' => Modifiers["alt"] \cap held' # {}
  BY <1>6
<1>12. effect' = "quieter" => struck' \in {"minus", "padminus"} /\ Modifiers["ctrl"] \cap held' # {}
  BY <1>5, <1>7, <1>10, <1>11
<1>13. effect' = "louder" => struck' \in {"equal"} /\ Modifiers["ctrl"] \cap held' # {}
  BY <1>5, <1>7, <1>10, <1>11
<1>14. effect' = "select" => struck' \in {"1", "7", "pad7"} /\ Modifiers["alt"] \cap held' # {}
  BY <1>5, <1>7, <1>10, <1>11
<1>15. effect' = "create" => struck' \in {"n"} /\ Modifiers["ctrl"] \cap held' # {}
  BY <1>5, <1>7, <1>10, <1>11
<1>16. effect' = "destroy" => struck' \in {"q"} /\ Modifiers["ctrl"] \cap held' # {}
  BY <1>5, <1>7, <1>10, <1>11
<1> QED
  BY <1>9, <1>12, <1>13, <1>14, <1>15, <1>16 DEF EffectMeant, StruckWith

\* All that the byte of a key does.
LEMMA DecodeKey ==
    ASSUME KeyboardSound, NEW byte, IsKey(byte), keyboard_decode(byte),
           byte.up => KeyOf(byte, prefix) \in held
    PROVE  /\ KeyboardSound'
           /\ prefix' = FALSE
           /\ held' = IF byte.up THEN held \ {KeyOf(byte, prefix)} ELSE held \cup {KeyOf(byte, prefix)}
<1>1. /\ flags' = FlagsAfter(byte) /\ Observe(byte)
      /\ ESC_COUNTER' = EscCount(byte, Decoded(byte))
  BY Zenon DEF keyboard_decode
<1>2. /\ ModifiersFollow'
      /\ \A m \in {"ctrl", "alt"} : Modifiers[m] \subseteq held' => m \in pairs'
  BY <1>1, ModifiersKept
<1>3. /\ ESC_COUNTER' \in Nat /\ esc_row' \in Nat /\ esc_repeats' \in Nat
      /\ ESC_COUNTER' <= esc_row' + esc_repeats'
  BY <1>1, EscKept
<1>4. EffectMeant'
  BY EffectKept
<1>5. /\ prefix' = FALSE /\ pairs' \subseteq {"ctrl", "alt"}
      /\ held' = IF byte.up THEN held \ {KeyOf(byte, prefix)} ELSE held \cup {KeyOf(byte, prefix)}
  BY <1>1, ObserveFacts
<1>6. KeyboardSound'
  BY <1>2, <1>3, <1>4, <1>5, ModifierKeys, Zenon DEF KeyboardSound
<1> QED
  BY <1>5, <1>6

-----------------------------------------------------------------------------
(* Between the keys and the decoder                                        *)

\* No key has the name of the prefix, or of no byte.
LEMMA NoKeyBehind ==
    ASSUME NEW key \in Keys, NEW extended
    PROVE  KeyOf(None, extended) # key /\ KeyOf(E0, extended) # key
<1>1. key # "e0" /\ key # "none"
  BY KeyNames
<1> QED
  BY <1>1 DEF KeyOf, None, E0

LEMMA KeysAreKeys == keys \in KeySets => keys \subseteq Keys
BY KeyboardAssumption

\* Nothing between the keys and the decoder changes.
LEMMA WireKept ==
    ASSUME DeviceInv, UNCHANGED <<deviceVars, keyboardVars>>
    PROVE  (keys \in KeySets)' /\ KeyboardSound' /\ PortSound' /\ WireSound'
<1>1. /\ UNCHANGED <<keys, wire, data_port, flags, ESC_COUNTER, kernel_log_level, effect>>
      /\ UNCHANGED <<held, pairs, struck, esc_row, esc_repeats, prefix>>
  BY DEF deviceVars, keyboardVars, keyboardObservers
<1>2. KeyboardSound'
  BY <1>1 DEF DeviceInv, KeyboardSound, ModifiersFollow, EffectMeant, StruckWith
<1>3. PortSound'
  BY <1>1 DEF DeviceInv, PortSound
<1>4. WireSound'
  BY <1>1 DEF DeviceInv, WireSound, Down
<1> QED
  BY <1>1, <1>2, <1>3, <1>4 DEF DeviceInv

LEMMA StrikeSound ==
    ASSUME DeviceInv, Strike
    PROVE  (keys \in KeySets)' /\ KeyboardSound' /\ PortSound' /\ WireSound'
<1>1. /\ UNCHANGED <<keys, data_port, flags, ESC_COUNTER, kernel_log_level, effect>>
      /\ UNCHANGED <<held, pairs, struck, esc_row, esc_repeats, prefix>>
  BY DEF Strike, keyboardVars, keyboardObservers
<1>2. PICK key \in keys, up \in BOOLEAN : (up => Down(key)) /\ wire' = Bytes(key, up)
  BY DEF Strike
<1>3. data_port # E0 /\ (data_port = None => ~prefix) /\ prefix \in BOOLEAN
  <2>1. wire = <<>> /\ WireSound
    BY DEF Strike, DeviceInv
  <2>2. \A byte : <<byte>> # <<>>
    OBVIOUS
  <2> QED
    BY <2>1, <2>2 DEF WireSound
<1>4. KeyboardSound'
  BY <1>1 DEF DeviceInv, KeyboardSound, ModifiersFollow, EffectMeant, StruckWith
<1>5. PortSound'
  BY <1>1 DEF DeviceInv, PortSound
<1>6. up => Down(key)'
  BY <1>1, <1>2 DEF Down
<1>7. WireSound'
  BY <1>1, <1>2, <1>3, <1>6 DEF WireSound
<1> QED
  BY <1>1, <1>4, <1>5, <1>7 DEF DeviceInv

LEMMA TransmitSound ==
    ASSUME DeviceInv, Transmit
    PROVE  (keys \in KeySets)' /\ KeyboardSound' /\ PortSound' /\ WireSound'
<1>1. /\ UNCHANGED <<keys, flags, ESC_COUNTER, kernel_log_level, effect>>
      /\ UNCHANGED <<held, pairs, struck, esc_row, esc_repeats, prefix>>
  BY DEF Transmit, keyboardVars, keyboardObservers
<1>2. wire # <<>> /\ data_port = None /\ data_port' = Head(wire) /\ wire' = Tail(wire)
  BY DEF Transmit
<1>3. KeyboardSound'
  BY <1>1 DEF DeviceInv, KeyboardSound, ModifiersFollow, EffectMeant, StruckWith
<1>4. PICK key \in keys, up \in BOOLEAN :
         /\ up => Down(key)
         /\ \/ wire = Bytes(key, up) /\ ~prefix
            \/ /\ key \in {"ctrl_r", "alt_r"}
               /\ wire = <<[code |-> Code(key), up |-> up]>>
               /\ prefix
  BY <1>2 DEF DeviceInv, WireSound, None, E0
<1> DEFINE byte == [code |-> Code(key), up |-> up]
<1>5. key \in Keys
  BY KeysAreKeys DEF DeviceInv
<1>6. /\ IsKey(byte) /\ byte.up = up /\ byte # None /\ byte # E0
      /\ KeyOf(byte, key \in {"ctrl_r", "alt_r"}) = key
  BY <1>5, CodeFacts
<1>7. up => key \in held
  BY <1>2, <1>4, <1>5, NoKeyBehind DEF Down
<1>8. prefix \in BOOLEAN
  BY DEF DeviceInv, WireSound
<1>9. E0 # None
  BY DEF E0, None
<1> HIDE DEF byte
<1>10. CASE wire = <<E0, byte>> /\ ~prefix /\ key \in {"ctrl_r", "alt_r"}
  <2>1. data_port' = E0 /\ wire' = <<byte>>
    BY <1>2, <1>10
  <2>2. PortSound'
    BY <1>1, <1>10, <2>1 DEF PortSound
  <2>3. up => Down(key)'
    BY <1>1, <1>5, <1>7, <2>1, NoKeyBehind DEF Down
  <2>4. WireSound'
    BY <1>1, <1>8, <1>10, <2>1, <2>3 DEF WireSound, byte
  <2> QED
    BY <1>1, <1>3, <2>2, <2>4 DEF DeviceInv
<1>11. CASE wire = <<byte>> /\ (prefix <=> key \in {"ctrl_r", "alt_r"})
  <2>1. data_port' = byte /\ wire' = <<>>
    BY <1>2, <1>11
  <2>2. KeyOf(byte, prefix) = key
    BY <1>6, <1>8, <1>11
  <2>3. PortSound'
    BY <1>1, <1>6, <1>7, <2>1, <2>2 DEF PortSound
  <2>4. WireSound'
    BY <1>1, <1>6, <1>8, <2>1 DEF WireSound
  <2> QED
    BY <1>1, <1>3, <2>3, <2>4 DEF DeviceInv
<1> QED
  BY <1>4, <1>8, <1>10, <1>11 DEF Bytes, byte

\* The handler, and main before the interrupts are on, take the byte there is.
LEMMA PollSound ==
    ASSUME DeviceInv, keyboard_poll, UNCHANGED <<keys, wire>>
    PROVE  /\ (keys \in KeySets)' /\ KeyboardSound' /\ PortSound' /\ WireSound'
           /\ data_port' = None
<1>1. CASE data_port = None
  <2>1. UNCHANGED <<deviceVars, keyboardVars>>
    BY <1>1 DEF keyboard_poll, HasData, deviceVars
  <2> QED
    BY <1>1, <2>1, WireKept DEF deviceVars
<1>2. ASSUME data_port # None
      PROVE  keyboard_decode(data_port) /\ data_port' = None
  BY <1>2 DEF keyboard_poll, HasData
<1>3. CASE data_port = E0 /\ ~prefix
  <2>1. E0 # None
    BY DEF E0, None
  <2>2. KeyboardSound' /\ prefix' = TRUE /\ held' = held /\ data_port' = None
    BY <1>2, <1>3, <2>1, DecodePrefix DEF DeviceInv
  <2>3. PICK key \in keys, up \in BOOLEAN :
           /\ up => Down(key)
           /\ key \in {"ctrl_r", "alt_r"}
           /\ wire = <<[code |-> Code(key), up |-> up]>>
    BY <1>3 DEF DeviceInv, WireSound
  <2>4. key \in Keys
    BY KeysAreKeys DEF DeviceInv
  <2>5. up => Down(key)'
    BY <1>3, <2>2, <2>3, <2>4, NoKeyBehind DEF Down
  <2>6. WireSound'
    BY <2>2, <2>3, <2>5 DEF WireSound
  <2>7. PortSound'
    BY <2>2 DEF PortSound
  <2> QED
    BY <2>2, <2>6, <2>7 DEF DeviceInv
<1>4. CASE IsKey(data_port) /\ (data_port.up => KeyOf(data_port, prefix) \in held)
  <2>1. data_port # None /\ data_port # E0
    BY <1>4 DEF IsKey, None, E0
  <2>2. /\ KeyboardSound' /\ prefix' = FALSE /\ data_port' = None
        /\ held' = IF data_port.up THEN held \ {KeyOf(data_port, prefix)}
                                   ELSE held \cup {KeyOf(data_port, prefix)}
    BY <1>2, <1>4, <2>1, DecodeKey DEF DeviceInv
  <2>3. PortSound'
    BY <2>2 DEF PortSound
  <2>4. None # E0
    BY DEF None, E0
  <2>5. WireSound'
    <3>1. CASE wire = <<>>
      BY <2>2, <2>4, <3>1 DEF WireSound
    <3>2. CASE wire # <<>>
      <4>1. PICK key \in keys, up \in BOOLEAN : (up => Down(key)) /\ wire = Bytes(key, up)
        BY <2>1, <3>2 DEF DeviceInv, WireSound
      <4>2. key \in Keys
        BY KeysAreKeys DEF DeviceInv
      <4>3. Down(key)' <=> key \in held'
        BY <2>2, <4>2, NoKeyBehind DEF Down
      <4>4. Down(key) <=> key \in held'
        BY <1>4, <2>2 DEF Down, IsKey
      <4> QED
        BY <2>2, <2>4, <4>1, <4>3, <4>4 DEF WireSound
    <3> QED
      BY <3>1, <3>2
  <2> QED
    BY <2>2, <2>3, <2>5 DEF DeviceInv
<1> QED
  BY <1>1, <1>3, <1>4 DEF DeviceInv, PortSound

-----------------------------------------------------------------------------
(* Lines and handlers                                                      *)

\* After the boot the three IRQs have a handler, and the two lines pass.
LEMMA BootedFacts ==
    ASSUME DispatchSound, at.step \notin {"timer_init", "keyboard_init", "ksyscall_init"}
    PROVE  /\ Registered = {IRQ_TIMER, IRQ_KEYBOARD, IRQ_SYSCALL}
           /\ irq_handlers = {IRQ_TIMER, IRQ_KEYBOARD, IRQ_SYSCALL}
           /\ \A line \in 0 .. 7 : line \notin mask[PIC1_DATA] => line \in {0, 1}
<1>1. Registered = {32, 33, 128}
  BY DEF Registered, IRQ_TIMER, IRQ_KEYBOARD, IRQ_SYSCALL
<1>2. mask[PIC1_DATA] = {line \in 0 .. 7 : 32 + line \notin Registered}
  BY DEF DispatchSound
<1>3. \A line \in 0 .. 7 : 32 + line \in {32, 33, 128} => line \in {0, 1}
  OBVIOUS
<1>4. Registered = {IRQ_TIMER, IRQ_KEYBOARD, IRQ_SYSCALL}
  BY <1>1 DEF IRQ_TIMER, IRQ_KEYBOARD, IRQ_SYSCALL
<1>5. irq_handlers = Registered
  BY Zenon DEF DispatchSound
<1>6. \A line \in 0 .. 7 : line \notin mask[PIC1_DATA] => line \in {0, 1}
  BY <1>1, <1>2, <1>3
<1> QED
  BY <1>4, <1>5, <1>6

\* What is registered and masked stays, and an interrupt that is taken has its
\* handler.
LEMMA DispatchKept ==
    ASSUME DispatchSound, UNCHANGED <<irq_handlers, mask>>,
           \/ UNCHANGED at
           \/ /\ {at.step, at'.step} \cap {"timer_init", "keyboard_init", "ksyscall_init", "panic"} = {}
              /\ at'.step = "handler" => at'.irq \in irq_handlers
    PROVE  DispatchSound'
<1>1. CASE UNCHANGED at
  BY <1>1 DEF DispatchSound, Registered
<1>2. CASE /\ {at.step, at'.step} \cap {"timer_init", "keyboard_init", "ksyscall_init", "panic"} = {}
           /\ at'.step = "handler" => at'.irq \in irq_handlers
  <2>1. /\ at.step \notin {"timer_init", "keyboard_init", "ksyscall_init"}
        /\ at'.step \notin {"timer_init", "keyboard_init", "ksyscall_init", "panic"}
    BY <1>2
  <2>2. Registered' = Registered
    BY <2>1 DEF Registered
  <2> QED
    BY <1>2, <2>1, <2>2 DEF DispatchSound
<1> QED
  BY <1>1, <1>2

\* timer_init, keyboard_init and ksyscall_init register one handler each, and
\* open its line if it has one.
LEMMA BootsSound ==
    ASSUME DispatchSound, Boots
    PROVE  DispatchSound' /\ at.step \in Boot /\ UNCHANGED requested
<1> DEFINE Masks(irqs) ==
             [port \in {PIC1_DATA, PIC2_DATA} |->
                IF port = PIC1_DATA THEN {line \in 0 .. 7 : 32 + line \notin irqs} ELSE 0 .. 7]
<1>1. irq_handlers = Registered /\ mask = Masks(Registered)
  BY DEF DispatchSound
<1>2. ASSUME NEW irq \in {32, 33}, NEW irqs, mask = Masks(irqs), interrupts_irq_register(irq)
      PROVE  mask' = Masks(irqs \cup {irq})
  <2>1. /\ FromPic(irq) /\ Line(irq) = irq - 32 /\ ~ (Line(irq) >= 8)
    BY <1>2 DEF FromPic, Line
  <2>2. mask' = [mask EXCEPT ![PIC1_DATA] = @ \ {irq - 32}]
    BY <1>2, <2>1 DEF interrupts_irq_register, pic_irq_enable, Unmask
  <2>3. {line \in 0 .. 7 : 32 + line \notin irqs} \ {irq - 32}
           = {line \in 0 .. 7 : 32 + line \notin irqs \cup {irq}}
    <3>1. \A line \in 0 .. 7 : line \notin {irq - 32} <=> 32 + line # irq
      OBVIOUS
    <3> QED
      BY <3>1
  <2>4. PIC1_DATA # PIC2_DATA
    BY DEF PIC1_DATA, PIC2_DATA
  <2> QED
    BY <1>2, <2>2, <2>3, <2>4
<1>3. CASE Registers("timer_init", IRQ_TIMER, "keyboard_init")
  <2>1. /\ at.step = "timer_init" /\ at' = [step |-> "keyboard_init", irq |-> 0]
        /\ interrupts_irq_register(32)
    BY <1>3 DEF Registers, GoTo, IRQ_TIMER
  <2>2. Registered = {} /\ Registered' = {32}
    BY <2>1 DEF Registered, IRQ_TIMER
  <2>3. irq_handlers' = Registered'
    BY <1>1, <2>1, <2>2 DEF interrupts_irq_register
  <2>4. mask' = Masks({} \cup {32})
    <3>1. mask = Masks({})
      BY <1>1, <2>2
    <3> HIDE DEF Masks
    <3> QED
      BY <1>2, <2>1, <3>1
  <2>5. mask' = Masks(Registered')
    BY <2>2, <2>4
  <2> QED
    BY <2>1, <2>3, <2>5 DEF DispatchSound, interrupts_irq_register, Boot
<1>4. CASE Registers("keyboard_init", IRQ_KEYBOARD, "ksyscall_init")
  <2>1. /\ at.step = "keyboard_init" /\ at' = [step |-> "ksyscall_init", irq |-> 0]
        /\ interrupts_irq_register(33)
    BY <1>4 DEF Registers, GoTo, IRQ_KEYBOARD
  <2>2. Registered = {32} /\ Registered' = {32, 33}
    BY <2>1 DEF Registered, IRQ_TIMER, IRQ_KEYBOARD
  <2>3. irq_handlers' = Registered'
    BY <1>1, <2>1, <2>2 DEF interrupts_irq_register
  <2>4. mask' = Masks({32} \cup {33})
    BY <1>1, <1>2, <2>1, <2>2
  <2>5. mask' = Masks(Registered')
    BY <2>2, <2>4
  <2> QED
    BY <2>1, <2>3, <2>5 DEF DispatchSound, interrupts_irq_register, Boot
<1>5. CASE Registers("ksyscall_init", IRQ_SYSCALL, "keyboard_getc")
  <2>1. /\ at.step = "ksyscall_init" /\ at' = [step |-> "keyboard_getc", irq |-> 0]
        /\ interrupts_irq_register(128)
    BY <1>5 DEF Registers, GoTo, IRQ_SYSCALL
  <2>2. Registered = {32, 33} /\ Registered' = {32, 33, 128}
    BY <2>1 DEF Registered, IRQ_TIMER, IRQ_KEYBOARD, IRQ_SYSCALL
  <2>3. irq_handlers' = Registered' /\ mask' = mask
    BY <1>1, <2>1, <2>2 DEF interrupts_irq_register, FromPic
  <2>4. \A line \in 0 .. 7 : 32 + line \in {32, 33} <=> 32 + line \in {32, 33, 128}
    OBVIOUS
  <2>5. mask' = Masks(Registered')
    BY <1>1, <2>2, <2>3, <2>4
  <2> QED
    BY <2>1, <2>3, <2>5 DEF DispatchSound, interrupts_irq_register, Boot
<1> QED
  BY <1>3, <1>4, <1>5 DEF Boots

-----------------------------------------------------------------------------
(* The invariant holds                                                     *)

LEMMA InitSound == Init => DeviceInv
<1> SUFFICES ASSUME Init PROVE DeviceInv
  OBVIOUS
<1>1. /\ flags = {} /\ ESC_COUNTER = 0 /\ effect = "nothing"
      /\ held = {} /\ pairs = {} /\ esc_row = 0 /\ esc_repeats = 0 /\ prefix = FALSE
      /\ irq_handlers = {} /\ at = [step |-> "timer_init", irq |-> 0]
      /\ keys \in KeySets /\ wire = <<>> /\ data_port = None
      /\ mask = [port \in {PIC1_DATA, PIC2_DATA} |-> 0 .. 7]
  BY DEF Init, KeyboardInit
<1>2. KeyboardSound
  <2>1. ModifiersFollow /\ EffectMeant
    BY <1>1 DEF ModifiersFollow, EffectMeant
  <2>2. \A m \in {"ctrl", "alt"} : ~ (Modifiers[m] \subseteq held)
    BY <1>1, ModifierKeys
  <2> QED
    BY <1>1, <2>1, <2>2 DEF KeyboardSound
<1>3. None # E0
  BY DEF None, E0
<1>4. PortSound /\ WireSound /\ NoByteStuck
  BY <1>1, <1>3 DEF PortSound, WireSound, NoByteStuck
<1>5. Registered = {}
  BY <1>1 DEF Registered
<1>6. {line \in 0 .. 7 : 32 + line \notin {}} = 0 .. 7
  OBVIOUS
<1>7. DispatchSound
  BY <1>1, <1>5, <1>6 DEF DispatchSound
<1> QED
  BY <1>1, <1>2, <1>4, <1>7 DEF DeviceInv

LEMMA NextSound == DeviceInv /\ [Next]_vars => DeviceInv'
<1> SUFFICES ASSUME DeviceInv, [Next]_vars PROVE DeviceInv'
  OBVIOUS
<1> DEFINE Inputs == (keys \in KeySets)' /\ KeyboardSound' /\ PortSound' /\ WireSound'
<1> USE DEF GoTo
<1>0. DispatchSound /\ NoByteStuck
  BY DEF DeviceInv
<1>1. CASE Pulse
  <2>1. /\ requested' = requested \cup {0}
        /\ UNCHANGED <<irq_handlers, mask, at, data_port>> /\ UNCHANGED <<deviceVars, keyboardVars>>
    BY <1>1 DEF Pulse, deviceVars
  <2>2. Inputs
    BY <2>1, WireKept
  <2>3. DispatchSound'
    BY <1>0, <2>1, DispatchKept
  <2>4. NoByteStuck'
    BY <1>0, <2>1 DEF NoByteStuck, Running
  <2> QED
    BY <2>2, <2>3, <2>4 DEF DeviceInv
<1>2. CASE Strike
  <2>1. UNCHANGED <<irq_handlers, mask, requested, at, data_port>>
    BY <1>2 DEF Strike, picVars
  <2>2. Inputs
    BY <1>2, StrikeSound
  <2>3. DispatchSound'
    BY <1>0, <2>1, DispatchKept
  <2>4. NoByteStuck'
    BY <1>0, <2>1 DEF NoByteStuck, Running
  <2> QED
    BY <2>2, <2>3, <2>4 DEF DeviceInv
<1>3. CASE Transmit
  <2>1. UNCHANGED <<irq_handlers, mask, at>> /\ 1 \in requested'
    BY <1>3 DEF Transmit
  <2>2. Inputs
    BY <1>3, TransmitSound
  <2>3. DispatchSound'
    BY <1>0, <2>1, DispatchKept
  <2>4. NoByteStuck'
    BY <2>1 DEF NoByteStuck
  <2> QED
    BY <2>2, <2>3, <2>4 DEF DeviceInv
<1>4. CASE Boots
  <2>1. UNCHANGED <<deviceVars, keyboardVars>>
    BY <1>4 DEF Boots, Registers
  <2>2. Inputs
    BY <2>1, WireKept
  <2>3. DispatchSound' /\ at.step \in Boot /\ UNCHANGED <<requested, data_port>>
    BY <1>0, <1>4, <2>1, BootsSound DEF deviceVars
  <2>4. at.step \notin {"exited", "panic", "handler"}
    BY <2>3 DEF Boot
  <2>5. NoByteStuck'
    BY <1>0, <2>3, <2>4 DEF NoByteStuck, Running
  <2> QED
    BY <2>2, <2>3, <2>5 DEF DeviceInv
<1>5. CASE keyboard_getc
  <2>1. /\ keyboard_poll /\ UNCHANGED <<keys, wire>> /\ UNCHANGED <<irq_handlers, mask>>
        /\ at.step = "keyboard_getc" /\ at'.step \in {"keyboard_getc", "exited", "interrupts_enable"}
    BY <1>5 DEF keyboard_getc, picVars
  <2>2. Inputs /\ data_port' = None
    BY <2>1, PollSound
  <2>3. DispatchSound'
    BY <1>0, <2>1, DispatchKept
  <2>4. NoByteStuck'
    BY <2>2 DEF NoByteStuck
  <2> QED
    BY <2>2, <2>3, <2>4 DEF DeviceInv
<1>6. CASE interrupts_enable
  <2>1. /\ UNCHANGED <<deviceVars, keyboardVars>> /\ UNCHANGED <<irq_handlers, mask, requested, data_port>>
        /\ at.step = "interrupts_enable" /\ at'.step = "user"
    BY <1>6 DEF interrupts_enable, picVars, deviceVars
  <2>2. Inputs
    BY <2>1, WireKept
  <2>3. DispatchSound'
    BY <1>0, <2>1, DispatchKept
  <2>4. NoByteStuck'
    BY <1>0, <2>1 DEF NoByteStuck, Running
  <2> QED
    BY <2>2, <2>3, <2>4 DEF DeviceInv
<1>7. ASSUME NEW line \in 0 .. 7, Accept(line)
      PROVE  DeviceInv'
  <2>1. /\ UNCHANGED <<deviceVars, keyboardVars>> /\ UNCHANGED <<irq_handlers, mask, data_port>>
        /\ at.step = "user" /\ at' = [step |-> "handler", irq |-> 32 + line]
        /\ requested' = requested \ {line} /\ line \notin mask[PIC1_DATA]
    BY <1>7 DEF Accept, Pending, deviceVars
  <2>2. Inputs
    BY <2>1, WireKept
  <2>3. irq_handlers = {IRQ_TIMER, IRQ_KEYBOARD, IRQ_SYSCALL} /\ line \in {0, 1}
    BY <1>0, <2>1, BootedFacts
  <2>4. at'.step = "handler" /\ at'.irq \in irq_handlers
    BY <2>1, <2>3 DEF IRQ_TIMER, IRQ_KEYBOARD
  <2>5. DispatchSound'
    BY <1>0, <2>1, <2>4, DispatchKept
  <2>6. NoByteStuck'
    <3>1. CASE line = 1
      BY <2>1, <3>1 DEF NoByteStuck, IRQ_KEYBOARD
    <3>2. CASE line = 0
      BY <1>0, <2>1, <3>2 DEF NoByteStuck, Running
    <3> QED
      BY <2>3, <3>1, <3>2
  <2> QED
    BY <2>2, <2>5, <2>6 DEF DeviceInv
<1>8. CASE SystemCall
  <2>1. /\ UNCHANGED <<deviceVars, keyboardVars>> /\ UNCHANGED <<irq_handlers, mask, requested, data_port>>
        /\ at.step = "user" /\ at' = [step |-> "handler", irq |-> IRQ_SYSCALL]
    BY <1>8 DEF SystemCall, picVars, deviceVars
  <2>2. Inputs
    BY <2>1, WireKept
  <2>3. irq_handlers = {IRQ_TIMER, IRQ_KEYBOARD, IRQ_SYSCALL}
    BY <1>0, <2>1, BootedFacts
  <2>4. DispatchSound'
    BY <1>0, <2>1, <2>3, DispatchKept
  <2>5. NoByteStuck'
    BY <1>0, <2>1 DEF NoByteStuck, Running
  <2> QED
    BY <2>2, <2>4, <2>5 DEF DeviceInv
<1>9. CASE interrupts_irq_handler
  <2>1. /\ at.step = "handler" /\ at.irq \in irq_handlers
        /\ timer_irq_handler \/ keyboard_irq_handler \/ ksyscall_irq_handler
        /\ UNCHANGED <<irq_handlers, mask, requested>> /\ UNCHANGED <<keys, wire>>
    BY <1>0, <1>9 DEF interrupts_irq_handler, DispatchSound, picVars
  <2>2. at'.step \in {"dismiss", "exited"}
    BY <2>1 DEF timer_irq_handler, keyboard_irq_handler, ksyscall_irq_handler
  <2>3. DispatchSound'
    BY <1>0, <2>1, <2>2, DispatchKept
  <2>4. CASE timer_irq_handler \/ ksyscall_irq_handler
    <3>1. at.irq # IRQ_KEYBOARD /\ UNCHANGED data_port /\ UNCHANGED <<deviceVars, keyboardVars>>
      BY <2>1, <2>4 DEF timer_irq_handler, ksyscall_irq_handler, deviceVars,
                        IRQ_TIMER, IRQ_KEYBOARD, IRQ_SYSCALL
    <3>2. Inputs
      BY <3>1, WireKept
    <3>3. NoByteStuck'
      BY <1>0, <2>1, <3>1 DEF NoByteStuck, Running
    <3> QED
      BY <2>3, <3>2, <3>3 DEF DeviceInv
  <2>5. CASE keyboard_irq_handler
    <3>1. keyboard_poll
      BY <2>5 DEF keyboard_irq_handler
    <3>2. Inputs /\ data_port' = None
      BY <2>1, <3>1, PollSound
    <3>3. NoByteStuck'
      BY <3>2 DEF NoByteStuck
    <3> QED
      BY <2>3, <3>2, <3>3 DEF DeviceInv
  <2> QED
    BY <2>1, <2>4, <2>5
<1>10. CASE Dismiss
  <2>1. /\ UNCHANGED <<deviceVars, keyboardVars>> /\ UNCHANGED <<irq_handlers, mask, requested, data_port>>
        /\ at.step = "dismiss" /\ at'.step = "user"
    BY <1>10 DEF Dismiss, deviceVars
  <2>2. Inputs
    BY <2>1, WireKept
  <2>3. DispatchSound'
    BY <1>0, <2>1, DispatchKept
  <2>4. NoByteStuck'
    BY <1>0, <2>1 DEF NoByteStuck, Running
  <2> QED
    BY <2>2, <2>3, <2>4 DEF DeviceInv
<1>11. CASE UNCHANGED vars
  <2>1. /\ UNCHANGED <<deviceVars, keyboardVars>>
        /\ UNCHANGED <<irq_handlers, mask, requested, at, data_port>>
    BY <1>11 DEF vars, picVars, deviceVars
  <2>2. Inputs
    BY <2>1, WireKept
  <2>3. DispatchSound'
    BY <1>0, <2>1, DispatchKept
  <2>4. NoByteStuck'
    BY <1>0, <2>1 DEF NoByteStuck, Running
  <2> QED
    BY <2>2, <2>3, <2>4 DEF DeviceInv
<1> QED
  BY <1>1, <1>2, <1>3, <1>4, <1>5, <1>6, <1>7, <1>8, <1>9, <1>10, <1>11 DEF Next

-----------------------------------------------------------------------------
(* Theorems                                                                *)

(***************************************************************************)
(* The invariant of the two devices, the decoder and the dispatch holds    *)
(* forever.                                                                *)
(***************************************************************************)
THEOREM DeviceSafety == Spec => []DeviceInv
BY InitSound, NextSound, PTL DEF Spec

(***************************************************************************)
(* keyboard_decode: whichever keys are struck, held and let go together,   *)
(* and wherever the prefix of a code and the code are parted, a modifier   *)
(* is on only while a key of its kind is down.                             *)
(***************************************************************************)
THEOREM NoModifierStuck == Spec => []ModifiersFollow
<1>1. DeviceInv => ModifiersFollow
  BY DEF DeviceInv, KeyboardSound
<1> QED
  BY <1>1, DeviceSafety, PTL

(***************************************************************************)
(* keyboard_decode: a shortcut is taken only when its own key is struck    *)
(* with its modifier down, and the kernel ends only at an ESC that is the  *)
(* third with no other key between, the repeats of one kept down included. *)
(***************************************************************************)
THEOREM ShortcutsAreMeant == Spec => []EffectMeant
<1>1. DeviceInv => EffectMeant
  BY DEF DeviceInv, KeyboardSound
<1> QED
  BY <1>1, DeviceSafety, PTL

(***************************************************************************)
(* keyboard_irq_handler takes one byte for each interrupt, and main polls: *)
(* even so no byte stays behind without an interrupt to come for it.       *)
(***************************************************************************)
THEOREM EveryByteHasItsInterrupt == Spec => []NoByteStuck
<1>1. DeviceInv => NoByteStuck
  BY DEF DeviceInv
<1> QED
  BY <1>1, DeviceSafety, PTL

(***************************************************************************)
(* interrupts_irq_handler: an interrupt that is taken has its handler, and *)
(* only the lines of the timer and of the keyboard are ever passed on.     *)
(***************************************************************************)
THEOREM EveryInterruptHasItsHandler ==
    Spec => [](at.step = "handler" => at.irq \in {IRQ_TIMER, IRQ_KEYBOARD, IRQ_SYSCALL} \cap irq_handlers)
<1>1. DeviceInv => (at.step = "handler"
                      => at.irq \in {IRQ_TIMER, IRQ_KEYBOARD, IRQ_SYSCALL} \cap irq_handlers)
  <2> SUFFICES ASSUME DeviceInv, at.step = "handler"
               PROVE  at.irq \in {IRQ_TIMER, IRQ_KEYBOARD, IRQ_SYSCALL} \cap irq_handlers
    OBVIOUS
  <2>1. DispatchSound /\ at.irq \in irq_handlers
    BY DEF DeviceInv, DispatchSound
  <2> QED
    BY <2>1, BootedFacts
<1> QED
  BY <1>1, DeviceSafety, PTL

=============================================================================
