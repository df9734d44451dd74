-------------------------- MODULE MCPromptTokenizer --------------------------
(***************************************************************************)
(* Instances of PromptTokenizer for TLC: two letters with rules that tie,  *)
(* compete and build on each other, a letter with byte tokens, one that is *)
(* unknown, an added token that a rule would merge, and prompts of up to   *)
(* five symbols for batches of two merges.                                 *)
(***************************************************************************)
EXTENDS PromptTokenizer

MCSpecial == {"S"}
MCChar == {"a", "b", "e", "x", " "}
MCVocab == {"a", "b", " ", "aa", "ab", "aaab", "e1", "e2", "ee", "S", "Sa", "unk"}
MCToken == MCVocab \cup MCChar
MCBytes == [c \in MCChar |->
              CASE c = "e" -> <<"e1", "e2">> [] c = "x" -> <<"x">> [] OTHER -> <<c>>]

Rule(l, r, m) == [left |-> l, right |-> r, merged |-> m]
MCRules == <<Rule("a", "b", "ab"), Rule("aa", "ab", "aaab"), Rule("e1", "e2", "ee"),
             Rule("a", "a", "aa"), Rule("aa", "aa", "ab"), Rule("S", "a", "Sa"),
             Rule("ab", "a", "aa"), Rule("a", " ", "a")>>

(* Three buckets. *)
Letters == <<"a", "b", " ", "aa", "ab", "aaab", "e1", "e2", "ee", "S", "Sa", "unk", "x", "e">>
Place(t) == CHOOSE k \in DOMAIN Letters : Letters[k] = t
MCBucketOf == [p \in MCToken \X MCToken |-> (Place(p[1]) + 2 * Place(p[2])) % 3]

P(split, bytes, fuse, unknown) ==
  [splitSpaces |-> split, byteFallback |-> bytes, fuseUnknown |-> fuse, unknown |-> unknown]
MCProfiles == {P(TRUE, TRUE, TRUE, "unk"), P(FALSE, FALSE, FALSE, "unk"), P(TRUE, FALSE, TRUE, "none")}

SequencesUpTo(n, S) == UNION {[1 .. k -> S] : k \in 0 .. n}
MCPrompts ==
  SequencesUpTo(5, {"a", "b"}) \cup SequencesUpTo(3, {"a", "e", "x", " ", "S"})
    \cup [1 .. 4 -> {"a", "e", "S"}]
=============================================================================
