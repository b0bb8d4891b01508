------------------------------ MODULE Keyboard ------------------------------
(***************************************************************************)
(* keyboard.c: what keyboard_decode makes of the bytes of the keyboard.    *)
(* It runs with interrupts disabled, so the decoding of a byte is one      *)
(* step.                                                                   *)
(*                                                                         *)
(* A byte has a code and tells whether the key goes down or up.  The keys  *)
(* CTRL and ALT on the right send the prefix E0 and then the code of the   *)
(* key on the left; the two-byte codes that the driver has for them, and   *)
(* with them CTRL_R_ON and ALT_R_ON, never match a byte.                   *)
(*                                                                         *)
(* The observers follow the keys themselves, in the order of their bytes.  *)
(***************************************************************************)
EXTENDS Integers, Sequences

CONSTANTS
    KeySets,      \* the sets of keys to consider, a user strikes those of one
    StartLevel,   \* kernel_log_level at the start
    MaxLevel      \* KERNEL_LOG_LEVEL_ALL

Modifiers == [ctrl |-> {"ctrl_l", "ctrl_r"}, alt |-> {"alt_l", "alt_r"},
              shift_l |-> {"shift_l"}, shift_r |-> {"shift_r"}]
Locks == {"caps", "numlock"}
Letters == {"q", "n", "a"}
Digits == {"1", "7"}
Symbols == Digits \cup {"minus", "equal"}
Keys == (UNION {Modifiers[m] : m \in DOMAIN Modifiers}) \cup Locks
          \cup Letters \cup Symbols \cup {"esc", "pad7", "padminus"}

ASSUME KeyboardAssumption ==
    /\ \A keys \in KeySets : keys \subseteq Keys
    /\ MaxLevel \in Nat /\ StartLevel \in 0 .. MaxLevel

VARIABLES
    flags,        \* SHIFT_L_ON, SHIFT_R_ON, CTRL_L_ON, ALT_L_ON and the two locks
    ESC_COUNTER,
    kernel_log_level,
    effect,       \* what the last byte has led to
    held,         \* OBSERVER: the keys that are down
    pairs,        \* OBSERVER: CTRL or ALT, if both keys have been down since none was
    struck,       \* OBSERVER: the key of the last byte, if it says that the key is down
    esc_row,      \* OBSERVER: how often ESC was struck since another key was
    esc_repeats,  \* OBSERVER: how often ESC, kept down, sent its code again since then
    prefix        \* OBSERVER: the last byte was E0

keyboardObservers == <<held, pairs, struck, esc_row, esc_repeats, prefix>>
keyboardVars == <<flags, ESC_COUNTER, kernel_log_level, effect, keyboardObservers>>

KEY_NULL == <<>>

KeyboardInit ==
    /\ flags = {} /\ ESC_COUNTER = 0
    /\ kernel_log_level = StartLevel
    /\ effect = "nothing"
    /\ held = {} /\ pairs = {} /\ prefix = FALSE
    /\ struck = "none" /\ esc_row = 0 /\ esc_repeats = 0

-----------------------------------------------------------------------------
(* The bytes of a key                                                      *)

E0 == [code |-> "e0", up |-> FALSE]

Code(key) ==
    IF key \in Modifiers.ctrl THEN "ctrl" ELSE IF key \in Modifiers.alt THEN "alt" ELSE key

Bytes(key, up) ==
    LET byte == [code |-> Code(key), up |-> up]
    IN  IF key \in {"ctrl_r", "alt_r"} THEN <<E0, byte>> ELSE <<byte>>

\* The key behind a byte, after the prefix or without it.
KeyOf(byte, extended) ==
    CASE byte.code = "ctrl" -> IF extended THEN "ctrl_r" ELSE "ctrl_l"
      [] byte.code = "alt"  -> IF extended THEN "alt_r" ELSE "alt_l"
      [] OTHER -> byte.code

-----------------------------------------------------------------------------
(* keyboard_decode                                                         *)

\* Mutant: the release of a modifier goes unnoticed while another is on.
MutModifier(byte) ==
    IF byte.up /\ flags = {byte.code} THEN {} ELSE IF byte.up THEN flags ELSE flags \cup {byte.code}

Modifier(byte) == IF byte.up THEN flags \ {byte.code} ELSE flags \cup {byte.code}

Toggled(lock) == IF lock \in flags THEN flags \ {lock} ELSE flags \cup {lock}

FlagsAfter(byte) ==
    CASE byte.code \in DOMAIN Modifiers -> Modifier(byte)
      [] byte.code \in Locks /\ ~byte.up -> Toggled(byte.code)
      [] OTHER -> flags

Shift == flags \cap {"shift_l", "shift_r"} # {}
Ctrl == "ctrl" \in flags
Alt == "alt" \in flags

shift_decode(symbol) == <<symbol, IF Shift THEN "shifted" ELSE "plain">>

letter_decode(letter) ==
    <<letter, IF ("caps" \in flags) # Shift THEN "shifted" ELSE "plain">>

numlock_decode(symbol, other) == IF "numlock" \in flags THEN <<symbol, "plain">> ELSE <<other, "plain">>

\* The flags do not change in a step in which a character is decoded.
Decoded(byte) ==
    IF byte.up THEN KEY_NULL ELSE
    CASE byte.code = "esc" -> <<"esc", "plain">>
      [] byte.code \in Symbols -> shift_decode(byte.code)
      [] byte.code \in Letters -> letter_decode(byte.code)
      [] byte.code = "pad7" -> numlock_decode("7", "home")
      [] byte.code = "padminus" -> <<"minus", "plain">>
      [] OTHER -> KEY_NULL

\* Mutant: keys that have no character do not reset the counter.
MutEscCount(byte, d) ==
    IF d = <<"esc", "plain">> THEN ESC_COUNTER + 1 ELSE IF d = KEY_NULL THEN ESC_COUNTER ELSE 0

\* The release of ESC is the one byte beside ESC that leaves the counter alone.
EscCount(byte, d) ==
    IF d = <<"esc", "plain">> THEN ESC_COUNTER + 1
    ELSE IF byte = [code |-> "esc", up |-> TRUE] THEN ESC_COUNTER
    ELSE 0

\* The shortcuts; any other character is for the TTY.
Command(d) ==
    CASE Ctrl /\ d = <<"minus", "plain">> -> "quieter"
      [] Ctrl /\ d = <<"equal", "plain">> -> "louder"
      [] Alt /\ d \in Digits \X {"plain"} -> "select"
      [] Ctrl /\ d = <<"n", "plain">> -> "create"
      [] Ctrl /\ d = <<"q", "plain">> -> "destroy"
      [] OTHER -> "input"

kernel_set_log_level(level) ==
    kernel_log_level' = IF level \in 0 .. MaxLevel THEN level ELSE kernel_log_level

Observe(byte) ==
    LET key == KeyOf(byte, prefix)
        now == IF byte.up THEN held \ {key} ELSE held \cup {key}
        Both(m) == Modifiers[m] \subseteq now
        None(m) == Modifiers[m] \cap now = {}
        Counted(n, esc) ==
            IF byte.up THEN n ELSE IF key # "esc" THEN 0 ELSE IF esc THEN n + 1 ELSE n
    IN  IF byte = E0
        THEN prefix' = TRUE /\ struck' = "none" /\ UNCHANGED <<held, pairs, esc_row, esc_repeats>>
        ELSE /\ prefix' = FALSE
             /\ struck' = IF byte.up THEN "none" ELSE key
             /\ held' = now
             /\ pairs' = {m \in {"ctrl", "alt"} : Both(m) \/ (m \in pairs /\ ~None(m))}
             /\ esc_row' = Counted(esc_row, key \notin held)
             /\ esc_repeats' = Counted(esc_repeats, key \in held)

\* The third ESC in a row ends the kernel before anything else is done.
keyboard_decode(byte) ==
    LET d == Decoded(byte) IN
    /\ flags' = FlagsAfter(byte)
    /\ ESC_COUNTER' = EscCount(byte, d)
    /\ effect' = IF ESC_COUNTER' = 3 /\ d = <<"esc", "plain">> THEN "exit"
                 ELSE IF d = KEY_NULL THEN "nothing"
                 ELSE Command(d)
    /\ kernel_set_log_level(CASE effect' = "quieter" -> kernel_log_level - 1
                              [] effect' = "louder" -> kernel_log_level + 1
                              [] OTHER -> kernel_log_level)
    /\ Observe(byte)

-----------------------------------------------------------------------------
(* Properties                                                              *)

(***************************************************************************)
(* No modifier is stuck: a flag is on only while a key of its kind is      *)
(* down, and it is on whenever one is down, unless both keys of the kind   *)
(* were down together, of which the driver knows only one.                 *)
(***************************************************************************)
ModifiersFollow ==
    \A m \in DOMAIN Modifiers :
        /\ m \in flags => Modifiers[m] \cap held # {}
        /\ m \notin flags /\ m \notin pairs => Modifiers[m] \cap held = {}

\* The key is one of these and a key of the kind m is down with it.
StruckWith(m, keys) == struck \in keys /\ Modifiers[m] \cap held # {}

(***************************************************************************)
(* A shortcut is taken only when the keys for it are struck: the last byte *)
(* is that of its key, and CTRL or ALT is down.  The kernel ends only at   *)
(* an ESC that is the third with no other key between; but a key that is   *)
(* kept down sends its code again and again, and the driver takes each     *)
(* code for a strike (keyboard.c:423), so that the repeats count as well.  *)
(***************************************************************************)
EffectMeant ==
    /\ effect = "exit" => struck = "esc" /\ esc_row + esc_repeats >= 3
    /\ effect = "quieter" => StruckWith("ctrl", {"minus", "padminus"})
    /\ effect = "louder" => StruckWith("ctrl", {"equal"})
    /\ effect = "select" => StruckWith("alt", {"1", "7", "pad7"})
    /\ effect = "create" => StruckWith("ctrl", {"n"})
    /\ effect = "destroy" => StruckWith("ctrl", {"q"})

=============================================================================
