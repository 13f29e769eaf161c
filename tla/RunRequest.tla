----------------------------- MODULE RunRequest -----------------------------
(***************************************************************************)
(* The arguments of run(): what its handler makes of them, and what the     *)
(* schema it advertises says of them.                                       *)
(*                                                                         *)
(* An argument is a record whose type is that of the JSON value, "absent"   *)
(* for none; a text is the sequence of its characters.                      *)
(***************************************************************************)
EXTENDS Integers, Sequences, SequencesExt

CONSTANTS
  MAX_LABEL_LENGTH,
  MAX_TIMER_DELAY_MS

Absent      == [type |-> "absent"]
Text(chars) == [type |-> "string", chars |-> chars]
List(items) == [type |-> "array", items |-> items]
Number(n)   == [type |-> "number", n |-> n]
Flag(b)     == [type |-> "boolean", b |-> b]
Object(f)   == [type |-> "object", fields |-> f]

Field(v, name) == IF name \in DOMAIN v.fields THEN v.fields[name] ELSE Absent

IsText(v)      == v.type = "string"
IsTexts(items) == \A i \in DOMAIN items : IsText(items[i])
HoldsTexts(v)  == v.type = "object" /\ \A k \in DOMAIN v.fields : IsText(v.fields[k])

-----------------------------------------------------------------------------
(* The characters that matter: a blank, a control character, and one that   *)
(* takes two UTF-16 units.                                                  *)

Blank   == " "
Control == "DEL"
Wide    == "wide"

hasControlCharacter(text) == \E i \in DOMAIN text : text[i] = Control

(* Fault: the native length, in UTF-16 units.                               *)
utf16Length(text) == Len(text) + Len(SelectSeq(text, LAMBDA c : c = Wide))

codePointLength(text) == Len(text)

IsBlank(text) == \A i \in DOMAIN text : text[i] = Blank

Joined(items) ==
  FlattenSeq([i \in DOMAIN items |->
                IF i = 1 THEN items[i].chars ELSE <<Blank>> \o items[i].chars])

-----------------------------------------------------------------------------
(* The handler.                                                             *)

WantsShell(args) == args.shell = Flag(TRUE)

CommandValid(command, shell) ==
  IF shell /\ command.type = "string" THEN command.chars # <<>>
  ELSE /\ command.type = "array" /\ command.items # <<>> /\ IsTexts(command.items)
       /\ shell => ~IsBlank(Joined(command.items))
       /\ ~shell => command.items[1].chars # <<>>

EnvValid(env) ==
  \/ env = Absent
  \/ /\ env.type = "object"
     /\ Field(env, "mode") \in {Absent, Text(<<"merge">>), Text(<<"replace">>)}
     /\ Field(env, "vars") = Absent \/ HoldsTexts(Field(env, "vars"))

LabelValid(label) ==
  \/ label = Absent
  \/ /\ IsText(label)
     /\ codePointLength(label.chars) <= MAX_LABEL_LENGTH
     /\ ~hasControlCharacter(label.chars)

DeadlineValid(deadline) ==
  \/ deadline = Absent
  \/ deadline.type = "number" /\ deadline.n \in 1 .. MAX_TIMER_DELAY_MS

validateRunInput(args) ==
  /\ args.shell = Absent \/ args.shell.type = "boolean"
  /\ CommandValid(args.command, WantsShell(args))
  /\ args.cwd = Absent \/ IsText(args.cwd)
  /\ EnvValid(args.env)
  /\ LabelValid(args.label)
  /\ DeadlineValid(args.deadline)

(* The command line a shell gets, and the argv of any other job.            *)
ShellCommand(args) ==
  IF args.command.type = "string" THEN args.command.chars ELSE Joined(args.command.items)

Argv(args) == [i \in DOMAIN args.command.items |-> args.command.items[i].chars]

-----------------------------------------------------------------------------
(* The schema.                                                              *)

SchemaAccepts(args) ==
  /\ args.shell = Absent \/ args.shell.type = "boolean"
  /\ \/ IsText(args.command) /\ args.command.chars # <<>>
     \/ args.command.type = "array" /\ args.command.items # <<>> /\ IsTexts(args.command.items)
  /\ ~WantsShell(args) =>
       /\ args.command.type = "array"
       /\ \A i \in DOMAIN args.command.items : args.command.items[i].chars # <<>>
  /\ args.cwd = Absent \/ IsText(args.cwd)
  /\ \/ args.env = Absent
     \/ /\ args.env.type = "object"
        /\ Field(args.env, "mode") \in {Absent, Text(<<"merge">>), Text(<<"replace">>)}
        /\ Field(args.env, "vars") = Absent \/ HoldsTexts(Field(args.env, "vars"))
  /\ \/ args.label = Absent
     \/ IsText(args.label) /\ Len(args.label.chars) <= MAX_LABEL_LENGTH
  /\ \/ args.deadline = Absent
     \/ args.deadline.type = "number" /\ args.deadline.n \in 1 .. MAX_TIMER_DELAY_MS

-----------------------------------------------------------------------------
(* The values the arguments are given in the check: every kind of each.     *)

Commands ==
  {Absent, Flag(TRUE), Text(<<>>), Text(<<"a">>), Text(<<Blank>>), List(<<>>)}
  \cup {List(<<Text(t)>>) : t \in {<<>>, <<Blank>>, <<"a">>}}
  \cup {List(<<Text(t), u>>) : t \in {<<>>, <<"a">>},
                               u \in {Text(<<>>), Text(<<Blank>>), Text(<<"b">>), Number(1)}}

Envs == {Absent, Flag(TRUE), List(<<>>)}
        \cup {Object([mode |-> m]) : m \in {Absent, Text(<<"merge">>), Text(<<"copy">>)}}
        \cup {Object([vars |-> v]) : v \in {List(<<>>), Object([X |-> Text(<<>>)]),
                                            Object([X |-> Number(1)])}}

Labels == {Absent, Number(1), Text(<<"a", Control>>)}
          \cup {Text([i \in 1 .. n |-> c]) : n \in 0 .. MAX_LABEL_LENGTH + 1, c \in {"a", Wide}}

Deadlines == {Absent, Text(<<"1">>)} \cup {Number(n) : n \in 0 .. MAX_TIMER_DELAY_MS + 1}

Plain == [shell |-> Absent, command |-> List(<<Text(<<"a">>)>>), cwd |-> Absent,
          env |-> Absent, label |-> Absent, deadline |-> Absent]

(* Every command with and without a shell, and every kind of the others.    *)
OddRequests ==
  {[Plain EXCEPT !.shell = s, !.command = c] :
     s \in {Absent, Flag(TRUE), Flag(FALSE), Text(<<"a">>)}, c \in Commands}
  \cup {[Plain EXCEPT !.env = e] : e \in Envs}
  \cup {[Plain EXCEPT !.label = l] : l \in Labels}
  \cup {[Plain EXCEPT !.deadline = d] : d \in Deadlines}
  \cup {[Plain EXCEPT !.cwd = Number(1)]}

(* What the schema accepts the handler runs, but for the two things a       *)
(* schema does not say: control characters in a label, and a list of blanks *)
(* for a shell.  A client that validates first is refused for nothing else. *)
SchemaIsHonoured(args) ==
  /\ SchemaAccepts(args)
  /\ ~(IsText(args.label) /\ hasControlCharacter(args.label.chars))
  /\ ~(args.command.type = "array" /\ IsBlank(Joined(args.command.items)))
  => validateRunInput(args)

(* A command is left to a shell only where the caller asks for one: without *)
(* it, what is accepted is an argv that names a program.                    *)
ShellIsAskedFor(args) ==
  validateRunInput(args) /\ ~WantsShell(args) =>
    args.command.type = "array" /\ Argv(args)[1] # <<>>

(* inputSchema's comment: minLength is kept out of the shared branch, as it *)
(* "would create a NEW schema/handler disagreement in the opposite          *)
(* direction (schema over-rejecting what the handler accepts)".             *)
SchemaNeverOverRejects(args) == validateRunInput(args) => SchemaAccepts(args)

=============================================================================
