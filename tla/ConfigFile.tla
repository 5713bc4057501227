----------------------------- MODULE ConfigFile -----------------------------
(***************************************************************************)
(* orbit config: commands of several terminals over config.yaml, and the   *)
(* resolution of defaults, file, environment and flags.                    *)
(*                                                                         *)
(* Two keys stand for the two ways in which a value can be wrong: "color"  *)
(* is typed in the file (setScalarValue picks the tag from the text), and  *)
(* "url" is checked only when the configuration is resolved.  The file is  *)
(* replaced by rename: nobody reads half of one.                           *)
(***************************************************************************)
EXTENDS Naturals

CONSTANTS
  Terminals,
  None

VARIABLES
  yaml,           \* config.yaml: key -> value or None, or None: no file
  edit,           \* terminal -> its command
  told            \* key -> value the last command on it reported, or Unknown

vars == <<yaml, edit, told>>

Keys == {"color", "url"}

Values == {"true", "false", "1", "maybe", "https://a", "https://b", ""}

(* What is typed at the command line: never the default. *)
Typed(key) == IF key = "color" THEN {"false", "1", "maybe"}
              ELSE {"https://b", ""}

Unknown == "unknown"

Default == [color |-> "true", url |-> "https://a"]

(* Config.Set: strconv.ParseBool takes "1"; a URL is not looked at. *)
Accepts(key, value) == value # "maybe"

(* yaml.v3 refuses to decode the integer 1 into a bool. *)
Decodes(f) == f["color"] \in {"true", "false", None}

(* Validate. *)
Valid(key, value) == ~(key = "url" /\ value = "")

-----------------------------------------------------------------------------
(* Resolve.  A file that does not decode is passed over in silence.        *)

FromFile(key) ==
  IF yaml = None THEN Default[key]
  ELSE IF ~Decodes(yaml) \/ yaml[key] = None THEN Default[key]
  ELSE yaml[key]

(* env and flag: key -> value or None; a color has no flag.  An empty      *)
(* variable counts as none.                                                *)
Layered(env, flag, key) ==
  CASE flag[key] # None -> flag[key]
    [] flag[key] = None /\ env[key] \notin {None, ""} ->
         IF env[key] = "1" THEN "true" ELSE env[key]
    [] OTHER -> FromFile(key)

Refuses(env, flag) ==
  \/ env["color"] = "maybe"
  \/ \E key \in Keys : ~Valid(key, Layered(env, flag, key))

NoLayer == [key \in Keys |-> None]

-----------------------------------------------------------------------------
Idle == [at |-> "idle", op |-> "set", key |-> "color", value |-> "true",
         read |-> None, seen |-> NoLayer]

Init ==
  /\ yaml \in {None, [Default EXCEPT !["color"] = "false"]}
  /\ edit = [t \in Terminals |-> Idle]
  /\ told = [key \in Keys |-> Unknown]

(* Service.Set and Service.Unset: load the file, try the change on it. *)
Begin(t, op, key, value) ==
  /\ edit[t].at = "idle"
  /\ edit' = [edit EXCEPT ![t] =
       IF \/ yaml # None /\ ~Decodes(yaml)
          \/ op = "set" /\ ~Accepts(key, value)
       THEN Idle
       ELSE [Idle EXCEPT !.at = "read", !.op = op, !.key = key,
                         !.value = value]]
  /\ UNCHANGED <<yaml, told>>

(* SetInFile and UnsetInFile read the file again.  Where there is none, set *)
(* starts from the template and unset is done.                             *)
Read(t) ==
  /\ edit[t].at = "read"
  /\ LET missing == yaml = None
         done == missing /\ edit[t].op = "unset"
     IN /\ edit' = [edit EXCEPT ![t] =
                      IF done THEN Idle
                      ELSE [@ EXCEPT !.at = "rename", !.seen = told,
                              !.read = IF missing THEN Default ELSE yaml]]
        /\ told' = IF done
                   THEN [told EXCEPT ![edit[t].key] = Default[edit[t].key]]
                   ELSE told
  /\ UNCHANGED yaml

(* Service.Init: an existing file is kept, unless forced. *)
BeginInit(t, force) ==
  /\ edit[t].at = "idle"
  /\ edit' = [edit EXCEPT ![t] =
       IF yaml # None /\ ~force THEN Idle
       ELSE [Idle EXCEPT !.at = "rename", !.op = "init", !.read = Default]]
  /\ UNCHANGED <<yaml, told>>

(* Mutant: set writes the template with one key changed. *)
EditedAnew(op, read, key, value) ==
  CASE op = "set" -> [Default EXCEPT ![key] = value]
    [] op = "unset" -> [read EXCEPT ![key] = None]
    [] op = "init" -> Default

(* modifyNode and deleteNode: what the new file holds. *)
Edited(op, read, key, value) ==
  CASE op = "set" -> [read EXCEPT ![key] = value]
    [] op = "unset" -> [read EXCEPT ![key] = None]
    [] op = "init" -> Default

(* What is reported, and what becomes of earlier reports: one given since  *)
(* the command read the file is written over.                              *)
Told(c) ==
  [key \in Keys |->
     CASE c.op = "init" -> Default[key]
       [] c.op # "init" /\ key = c.key ->
            IF c.op = "set" THEN c.value ELSE Default[key]
       [] OTHER -> IF told[key] = c.seen[key] THEN told[key] ELSE Unknown]

(* atomicWriteFile: a temporary file renamed over the old one, or an error *)
(* and nothing.                                                            *)
Rename(t) ==
  /\ edit[t].at = "rename"
  /\ LET c == edit[t]
     IN \/ yaml' = Edited(c.op, c.read, c.key, c.value) /\ told' = Told(c)
        \/ UNCHANGED <<yaml, told>>
  /\ edit' = [edit EXCEPT ![t] = Idle]

Kill(t) ==
  /\ edit[t].at # "idle"
  /\ edit' = [edit EXCEPT ![t] = Idle]
  /\ UNCHANGED <<yaml, told>>

Next ==
  \E t \in Terminals :
    \/ \E key \in Keys : \E value \in Typed(key) : Begin(t, "set", key, value)
    \/ \E key \in Keys : Begin(t, "unset", key, "true")
    \/ \E force \in BOOLEAN : BeginInit(t, force)
    \/ Read(t) \/ Rename(t) \/ Kill(t)

Spec == Init /\ [][Next]_vars

-----------------------------------------------------------------------------
Config == [Keys -> Values \union {None}]

TypeOK ==
  /\ yaml \in Config \union {None}
  /\ told \in [Keys -> Values \union {Unknown}]
  /\ \A t \in Terminals :
       /\ edit[t].at \in {"idle", "read", "rename"}
       /\ edit[t].op \in {"set", "unset", "init"}
       /\ edit[t].key \in Keys /\ edit[t].value \in Values
       /\ edit[t].read \in Config \union {None}

(* What config set, unset and init reported is what every later command    *)
(* resolves, below the environment and flags, as long as the file can be   *)
(* decoded: another command takes it back only by changing the same key,   *)
(* or by reading before the report and renaming after it.                  *)
ReportedResolves ==
  yaml = None \/ Decodes(yaml) =>
    \A key \in Keys : told[key] # Unknown =>
      Layered(NoLayer, NoLayer, key) = told[key]

(* A file that config commands alone have written can be used: it decodes, *)
(* and what it says passes the validation of every command.                *)
AcceptedIsUsable ==
  yaml # None => Decodes(yaml) /\ ~Refuses(NoLayer, NoLayer)

=============================================================================
