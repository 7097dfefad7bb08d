------------------------------ MODULE ProfileForm ------------------------------
(* A profile's configuration and the form that edits it: what the settings *)
(* window shows of the JSON (load_from_json of settings.rs), what it       *)
(* writes back (to_json, reset_defaults), and what the server makes of it  *)
(* (VpnConfig, build_tunnel_params of tunnel.rs). The fields are of seven  *)
(* kinds, and each is treated like the others of its kind; a value is      *)
(* Missing when the object has no such key. Entries of a list have no      *)
(* comma and no blank at either end.                                       *)
EXTENDS Integers, Sequences

CONSTANTS
    Missing,
    Texts,            \* the texts a value or an entry of a list may be
    MaxList,          \* the longest list
    MaxNumber,        \* the largest number
    Lowest, Highest,  \* of the form's numbers, in their unit
    DefaultNumber

(* A switch, a text, a text that may be null, a list, a choice, a number,  *)
(* and the lease: a number that may be null.                               *)
Kinds == {"flag", "text", "optional", "list", "choice", "number", "lease"}

Offered == {"first", "second"}

Given(kind) ==
    CASE kind = "flag" -> BOOLEAN
      [] kind \in {"text", "optional"} -> Texts
      [] kind = "list" -> UNION {[1..n -> Texts] : n \in 0..MaxList}
      [] kind = "choice" -> Offered \cup Texts
      [] kind \in {"number", "lease"} -> 0..MaxNumber
Values(kind) == {Missing} \cup Given(kind)

ASSUME FormAssumption ==
    /\ "" \in Texts /\ MaxList \in Nat /\ MaxNumber \in Nat
    /\ Lowest \in Nat /\ Highest \in 0..MaxNumber /\ DefaultNumber \in Lowest..Highest
    /\ \A kind \in Kinds : Missing \notin Given(kind)

-----------------------------------------------------------------------------
(* The form.                                                               *)

(* A field as the form shows it when nothing is set: reset_defaults.       *)
Default(kind) ==
    CASE kind = "flag" -> FALSE
      [] kind \in {"text", "optional"} -> ""
      [] kind = "list" -> <<>>
      [] kind = "choice" -> "first"
      [] kind = "number" -> DefaultNumber
      [] kind = "lease" -> 0

(* A spin button keeps a value in its range.                               *)
Clamped(n, lowest) == IF n < lowest THEN lowest ELSE IF n > Highest THEN Highest ELSE n

(* load_from_json.                                                         *)
Show(kind, value) ==
    CASE value = Missing -> Default(kind)
      [] value # Missing /\ kind = "choice" -> IF value \in Offered THEN value ELSE "first"
      [] value # Missing /\ kind = "number" -> Clamped(value, Lowest)
      [] value # Missing /\ kind = "lease" -> Clamped(value, 0)
      [] OTHER -> value

(* parse_comma_list, of the entries between the commas.                    *)
ParseCommaList(entries) ==
    LET kept[n \in 0..Len(entries)] ==
            IF n = 0 THEN <<>>
            ELSE IF entries[n] = "" THEN kept[n - 1]
            ELSE Append(kept[n - 1], entries[n])
    IN  kept[Len(entries)]

(* Mutant: the lowest number is left out as the lowest lease is.           *)
ToJsonTerse(kind, shown) ==
    CASE kind \in {"text", "optional"} -> IF shown = "" THEN Missing ELSE shown
      [] kind = "list" -> IF ParseCommaList(shown) = <<>> THEN Missing ELSE ParseCommaList(shown)
      [] kind = "lease" -> IF shown = 0 THEN Missing ELSE shown
      [] kind = "number" -> IF shown = Lowest THEN Missing ELSE shown
      [] OTHER -> shown

(* to_json: what is empty is left out, whatever it was before.             *)
ToJson(kind, shown) ==
    CASE kind \in {"text", "optional"} -> IF shown = "" THEN Missing ELSE shown
      [] kind = "list" -> IF ParseCommaList(shown) = <<>> THEN Missing ELSE ParseCommaList(shown)
      [] kind = "lease" -> IF shown = 0 THEN Missing ELSE shown
      [] OTHER -> shown

-----------------------------------------------------------------------------
(* The server: the defaults of VpnConfig, and what the parameters of the   *)
(* tunnel make of the value. An entry of a list that does not parse is     *)
(* ignored.                                                                *)
Meaning(kind, value) ==
    CASE kind \in {"optional", "lease"} -> value
      [] kind = "list" -> IF value = Missing THEN <<>> ELSE ParseCommaList(value)
      [] OTHER -> IF value = Missing THEN Default(kind) ELSE value

(* Saving a profile as it is shown changes what these mean, and no other:  *)
(* a choice the form does not offer, a number out of the form's range, and *)
(* the difference between nothing and an empty value.                      *)
Resaved(kind, value) == Meaning(kind, ToJson(kind, Show(kind, value)))
ChangedBySaving ==
    {p \in UNION {{k} \X Values(k) : k \in Kinds} : Resaved(p[1], p[2]) # Meaning(p[1], p[2])}
KnownToChange ==
    {<<"optional", "">>} \cup {"choice"} \X (Texts \ Offered)
        \cup {"number"} \X {n \in 0..MaxNumber : n \notin Lowest..Highest}
        \cup {"lease"} \X {n \in 0..MaxNumber : n = 0 \/ n > Highest}

(* And a form that is reset means what a profile without settings does.    *)
ResetMeansUnset == \A k \in Kinds : Meaning(k, ToJson(k, Default(k))) = Meaning(k, Missing)

(* Saving a profile that has been shown changes no field's meaning but of  *)
(* the kinds named in KnownToChange, and a form that is reset means what a *)
(* profile without settings does (settings.rs load_from_json and to_json,  *)
(* tunnel.rs build_tunnel_params).                                         *)
FormKeepsMeaning == ChangedBySaving = KnownToChange /\ ResetMeansUnset
=============================================================================
