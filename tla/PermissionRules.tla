-------------------------- MODULE PermissionRules --------------------------
(***************************************************************************)
(* The rules of permissions as data: evaluate, disabled (permission/       *)
(* evaluate.ts, permission/index.ts) and their way into the configuration  *)
(* file and back, toConfig and fromConfig.                                 *)
(*                                                                         *)
(* A name or a pattern is an atom; Star matches everything, and nothing    *)
(* else is a wildcard.  A JavaScript object is a sequence of fields in     *)
(* insertion order.  A scalar "allow" for a permission is the object       *)
(* {"*": "allow"}, which is how both directions read it.  Home directories *)
(* are expanded in the patterns already.                                   *)
(***************************************************************************)
EXTENDS Naturals, Sequences, SequencesExt

CONSTANTS
  Star,          \* the pattern "*"
  ScalarOnly     \* the permissions that have one action and no patterns

Actions == {"allow", "deny", "ask"}

RuleSet(Perms, Pats) == [permission : Perms, pattern : Pats, action : Actions]

(* Ruleset, as its schema has it: a list whose actions are Actions. *)
IsRuleset(rules) ==
  rules \in Seq(ToSet(rules)) /\ \A i \in DOMAIN rules : rules[i].action \in Actions

Matches(x, pat) == pat = Star \/ pat = x

(* findLast: i is the last index of s at which Test holds. *)
IsLast(i, s, Test(_)) ==
  /\ i \in DOMAIN s /\ Test(s[i])
  /\ \A j \in DOMAIN s : Test(s[j]) => j <= i

(* evaluate: the action of the last rule that matches, "ask" without one. *)
Evaluate(perm, pat, rules) ==
  LET Hit(r) == Matches(perm, r.permission) /\ Matches(pat, r.pattern)
  IN IF \E i \in DOMAIN rules : IsLast(i, rules, Hit)
       THEN rules[CHOOSE i \in DOMAIN rules : IsLast(i, rules, Hit)].action
       ELSE "ask"

(* disabled: the tools of this permission are not offered to the model. *)
Disabled(perm, rules) ==
  \E i \in DOMAIN rules :
    /\ IsLast(i, rules, LAMBDA r : Matches(perm, r.permission))
    /\ rules[i].pattern = Star /\ rules[i].action = "deny"

----------------------------------------------------------------------------

(* obj[key] = value: an existing field keeps its place. *)
SetField(obj, key, value) ==
  LET i == SelectInSeq(obj, LAMBDA f : f.key = key)
      field == [key |-> key, value |-> value]
  IN IF i = 0 THEN Append(obj, field) ELSE ReplaceAt(obj, i, field)

GetField(obj, key) ==
  LET i == SelectInSeq(obj, LAMBDA f : f.key = key)
  IN IF i = 0 THEN <<>> ELSE obj[i].value

SetFields(obj, fields) ==
  LET after[n \in 0..Len(fields)] ==
        IF n = 0 THEN obj ELSE SetField(after[n - 1], fields[n].key, fields[n].value)
  IN after[Len(fields)]

(* Mutant: a further rule for a permission replaces the ones before it. *)
AddRuleOverwriting(config, r) ==
  IF r.permission \in ScalarOnly /\ r.pattern # Star THEN config
  ELSE SetField(config, r.permission, SetField(<<>>, r.pattern, r.action))

(* One round of toConfig's loop. *)
AddRule(config, r) ==
  IF r.permission \in ScalarOnly
    THEN IF r.pattern = Star
           THEN SetField(config, r.permission, SetField(<<>>, Star, r.action))
           ELSE config
    ELSE SetField(config, r.permission,
                  SetField(GetField(config, r.permission), r.pattern, r.action))

ToConfig(rules) ==
  LET after[n \in 0..Len(rules)] ==
        IF n = 0 THEN <<>> ELSE AddRule(after[n - 1], rules[n])
  IN after[Len(rules)]

RulesOf(f) ==
  [j \in DOMAIN f.value |->
     [permission |-> f.key, pattern |-> f.value[j].key, action |-> f.value[j].value]]

(* fromConfig: wildcard permissions first (the sort is stable), then one    *)
(* rule per pattern in the order of the object.                             *)
FromConfig(config) ==
  LET Section(wild) == [i \in DOMAIN config |->
        IF (config[i].key = Star) = wild THEN RulesOf(config[i]) ELSE <<>>]
  IN FlattenSeq(Section(TRUE)) \o FlattenSeq(Section(FALSE))

(* patchJsonc (config/config.ts) for the keys of "permission": the fields   *)
(* of the patch are set one by one in the file, in place.                   *)
PatchConfig(file, patch) ==
  LET after[n \in 0..Len(patch)] ==
        IF n = 0 THEN file
        ELSE LET key == patch[n].key
             IN SetField(after[n - 1], key,
                         SetFields(GetField(after[n - 1], key), patch[n].value))
  IN after[Len(patch)]

----------------------------------------------------------------------------
(* Properties of a list of rules *)

(* A tool that is hidden from the model could not be used anyway: every     *)
(* request for it would be denied, whatever its pattern (disabled against   *)
(* evaluate).                                                               *)
DisabledIsDenied(Perms, Pats, rules) ==
  \A perm \in Perms, pat \in Pats :
    Disabled(perm, rules) => Evaluate(perm, pat, rules) = "deny"

(* What reply and saveAlwaysRules hand to toConfig: rules for permissions   *)
(* by name, and a pattern that comes twice does so in a row ("allow", then  *)
(* "deny" of the same pattern).                                             *)
SavedShape(rules) == \A i, j \in DOMAIN rules :
  /\ rules[i].permission # Star
  /\ rules[i].permission \in ScalarOnly => rules[i].pattern = Star
  /\ /\ i < j
     /\ rules[i].permission = rules[j].permission
     /\ rules[i].pattern = rules[j].pattern
     => \A k \in i..j : rules[k].permission = rules[i].permission
                          => rules[k].pattern = rules[i].pattern

(* Rules saved in two calls and read back by the next process decide every  *)
(* request as they do in the process that saved them.                       *)
SavedRulesSurvive(Perms, Pats, rules) ==
  SavedShape(rules) =>
    \A k \in 0..Len(rules) :
      LET file == PatchConfig(ToConfig(SubSeq(rules, 1, k)),
                              ToConfig(SubSeq(rules, k + 1, Len(rules))))
          read == FromConfig(file)
      IN \A perm \in Perms, pat \in Pats :
           Evaluate(perm, pat, read) = Evaluate(perm, pat, rules)
============================================================================
