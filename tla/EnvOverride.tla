----------------------------- MODULE EnvOverride -----------------------------
(***************************************************************************)
(* The environment-override engine of k8s-tester: parseEnvs(pfx, addOn)    *)
(* in k8s-tester/config.go (src/unnamed/part_001).                         *)
(*                                                                         *)
(* parseEnvs walks the fields of one configuration record in declaration   *)
(* order.  A field is skipped when its json tag is empty or its variable   *)
(* pfx+KEY is unset or empty; otherwise a read-only field, an unparsable   *)
(* value or a map field outside the whitelist returns an error at once,    *)
(* and any other field is overwritten with the coerced value.  The loop    *)
(* is written here in closed form: the first failing field `stop` ends the *)
(* pass, every settable field before it holds its coerced value, and the   *)
(* fields from `stop` on keep their values, except that a whitelisted map  *)
(* field is reset to an empty map before its JSON is parsed (line 378), so *)
(* a malformed JSON value leaves that field empty.                         *)
(*                                                                         *)
(* A field is a record [name, key, kind, ro]: the Go field name, the       *)
(* variable key (the json tag with ",omitempty" removed, upper-cased, "-"  *)
(* replaced by "_"; "" when the field has no json tag), the reflect kind   *)
(* and the read-only tag.  A configuration record maps field names to      *)
(* values; fields of kind "other" (pointers, channels, structs) carry no   *)
(* value here since parseEnvs never writes them.                           *)
(***************************************************************************)
EXTENDS Integers, Sequences

CONSTANTS
  IntBits,    \* bitSize passed to strconv.ParseInt/ParseUint (64)
  Int32Bits,  \* width of an int32/uint32 field that reflect.SetInt truncates to (32)
  JsonKeys,   \* the keys the JSON objects in the environment use
  JsonValues  \* the string values they map them to

ASSUME WidthAssumption == IntBits \in Nat \ {0} /\ Int32Bits \in 1..IntBits
ASSUME JsonAssumption == JsonKeys \subseteq STRING /\ JsonValues \subseteq STRING

\* The moduli of an int32/uint32 field are positive naturals (a fact of
\* arithmetic that the provers do not derive from the definition of ^).
ASSUME PowerAssumption == 2^Int32Bits \in Nat \ {0} /\ 2^(Int32Bits - 1) \in Nat \ {0}

(***************************************************************************)
(* Environment values.  The text of a variable is abstracted to the        *)
(* syntactic class the parsers tell apart: a decimal integer, a boolean    *)
(* word, a duration with a unit, a comma-separated list, a JSON object, or *)
(* any other text.  Each class is a record with its own field, so values   *)
(* of different classes are simply different records.  A field of the    *)
(* configuration holds a record of the same kind, tagged with its Go type: *)
(* a bool field [bool], an integer field [dec], a time.Duration [dur], a   *)
(* []string [slice], a map[string]string [json] and a string field the     *)
(* text it was set to.                                                     *)
(***************************************************************************)
Dec(n)     == [dec |-> n]    \* "3", "-1"
BoolLit(b) == [bool |-> b]   \* "true", "F"
Dur(n)     == [dur |-> n]    \* "5m", with n in the model's unit
Text(s)    == [text |-> s]   \* "abc", "/w/c.yaml"
List(ss)   == [list |-> ss]  \* "a,b": the pieces between commas
Json(m)    == [json |-> m]   \* {"k":"v"} as a function
Slice(ls)  == [slice |-> ls] \* a []string field, one text per element

Is(l, form) == form \in DOMAIN l

StrMaps == UNION {[D -> JsonValues] : D \in SUBSET JsonKeys}

\* The values an environment variable may hold.
LitSet == [dec : Int] \cup [dur : Int] \cup [bool : BOOLEAN] \cup [text : STRING]
          \cup [list : Seq(STRING)] \cup [json : StrMaps]

\* os.Getenv returns "" for an unset variable; the loop skips both alike.
Unset == Text("")

Getenv(env, var) == IF var \in DOMAIN env THEN env[var] ELSE Unset

Kinds == {"string", "bool", "int", "int32", "duration", "uint", "uint32",
          "float", "slice", "map", "other"}

\* The Go field names whose map[string]string may be set from JSON (lines 374-377).
MapFieldNames == {"Tags", "NodeSelector", "DeploymentNodeSelector",
                  "DeploymentNodeSelector2048"}

EmptyMap == Json([k \in {} |-> ""])

\* Every value a field of the model may hold.
Values == LitSet \cup [slice : Seq(LitSet)]

(***************************************************************************)
(* The parsers, by what they accept.                                       *)
(***************************************************************************)
SignedRange(w) == -(2^(w-1)) .. 2^(w-1) - 1

\* Two's complement truncation of v to w bits, what SetInt does to an int32.
Wrap(v, w) == ((v + 2^(w-1)) % 2^w) - 2^(w-1)

\* strconv.ParseBool also accepts "1" and "0".
ParseBoolOk(l) == Is(l, "bool") \/ l \in {Dec(0), Dec(1)}
ParseBool(l)   == IF Is(l, "bool") THEN l.bool ELSE l = Dec(1)

\* Whether the parser of a kind accepts l (time.ParseDuration accepts "0").
Parses(kind, l) ==
  CASE kind = "bool"                -> ParseBoolOk(l)
    [] kind \in {"int", "int32"}    -> Is(l, "dec") /\ l.dec \in SignedRange(IntBits)
    [] kind = "duration"            -> Is(l, "dur") \/ l = Dec(0)
    [] kind \in {"uint", "uint32"}  -> Is(l, "dec") /\ l.dec \in 0 .. 2^IntBits - 1
    [] kind = "float"               -> Is(l, "dec")
    [] kind = "map"                 -> Is(l, "json")
    [] OTHER                        -> TRUE

\* strings.Split(sv, ","): never empty, so the len(ss) < 1 guard never fires.
Split(l) == IF Is(l, "list") THEN [i \in 1..Len(l.list) |-> Text(l.list[i])]
                               ELSE <<l>>

\* The value stored by the Set call of each kind.
Coerce(kind, l) ==
  CASE kind = "bool"                   -> BoolLit(ParseBool(l))
    [] kind = "int32"                  -> Dec(Wrap(l.dec, Int32Bits))
    [] kind = "uint32"                 -> Dec(l.dec % 2^Int32Bits)
    [] kind = "duration"               -> Dur(IF Is(l, "dur") THEN l.dur ELSE 0)
    [] kind \in {"int", "uint", "float"} -> Dec(l.dec)
    [] kind = "slice"                  -> Slice(Split(l))
    [] kind = "map"                    -> l
    [] OTHER                           -> l

(***************************************************************************)
(* One field of the loop, with sv the value of its variable.               *)
(***************************************************************************)
EnvName(pfx, f) == pfx \o f.key

FieldValue(env, pfx, f) == IF f.key = "" THEN Unset ELSE Getenv(env, EnvName(pfx, f))

Skipped(f, sv) == f.key = "" \/ sv = Unset

\* Mutant: the read-only tag is not checked.
RejectsNoReadOnly(f, sv) ==
  /\ ~Skipped(f, sv)
  /\ \/ f.kind = "map" /\ f.name \notin MapFieldNames
     \/ ~Parses(f.kind, sv)

\* The field returns an error: read-only (line 316), a map outside the
\* whitelist (line 386), or a value its parser rejects.
Rejects(f, sv) ==
  /\ ~Skipped(f, sv)
  /\ \/ f.ro
     \/ f.kind = "map" /\ f.name \notin MapFieldNames
     \/ ~Parses(f.kind, sv)

\* The field is overwritten with Coerce(f.kind, sv).
Assigns(f, sv) == ~Skipped(f, sv) /\ ~Rejects(f, sv) /\ f.kind # "other"

\* The field is reset to an empty map before its JSON is parsed (line 378).
Clears(f, sv) ==
  /\ ~Skipped(f, sv) /\ ~f.ro
  /\ f.kind = "map" /\ f.name \in MapFieldNames

FirstOf(S) == CHOOSE i \in S : \A j \in S : i =< j

\* The index of the field whose error ends the pass; Len(fields)+1 if none.
Stop(env, pfx, fields) ==
  LET bad == {i \in 1..Len(fields) : Rejects(fields[i], FieldValue(env, pfx, fields[i]))}
  IN  IF bad = {} THEN Len(fields) + 1 ELSE FirstOf(bad)

IndexOf(fields, n) == CHOOSE i \in 1..Len(fields) : fields[i].name = n

(***************************************************************************)
(* parseEnvs(pfx, rec): the record after the pass and whether it returned  *)
(* an error.                                                               *)
(***************************************************************************)
\* Mutant: a slice field is appended to (reflect.Append) instead of replaced.
ParseEnvsAppend(env, pfx, fields, rec) ==
  LET stop == Stop(env, pfx, fields)
      New(n) ==
        LET i  == IndexOf(fields, n)
            f  == fields[i]
            sv == FieldValue(env, pfx, f)
        IN  CASE i < stop /\ Assigns(f, sv) /\ f.kind = "slice" ->
                   Slice(rec[n].slice \o Split(sv))
              [] i < stop /\ Assigns(f, sv) -> Coerce(f.kind, sv)
              [] i = stop /\ Clears(f, sv)  -> EmptyMap
              [] OTHER                      -> rec[n]
  IN  [rec |-> [n \in DOMAIN rec |-> New(n)], failed |-> stop =< Len(fields)]

ParseEnvs(env, pfx, fields, rec) ==
  LET stop == Stop(env, pfx, fields)
      New(n) ==
        LET i  == IndexOf(fields, n)
            f  == fields[i]
            sv == FieldValue(env, pfx, f)
        IN  CASE i < stop /\ Assigns(f, sv) -> Coerce(f.kind, sv)
              [] i = stop /\ Clears(f, sv)  -> EmptyMap
              [] OTHER                      -> rec[n]
  IN  [rec |-> [n \in DOMAIN rec |-> New(n)], failed |-> stop =< Len(fields)]

(***************************************************************************)
(* parseEnvs on a nil *T: reflect.ValueOf(nil).Elem() is the zero Value,   *)
(* and its first field that is not skipped either errors as read-only      *)
(* (the check reads only the type) or panics in vv.Field(i) (line 321).    *)
(***************************************************************************)
ParseEnvsNil(env, pfx, fields) ==
  LET hit == {i \in 1..Len(fields) : ~Skipped(fields[i], FieldValue(env, pfx, fields[i]))}
  IN  IF hit = {} THEN "ok"
      ELSE IF fields[FirstOf(hit)].ro THEN "failed" ELSE "panic"

=============================================================================
