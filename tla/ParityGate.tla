----------------------------- MODULE ParityGate -----------------------------
(***************************************************************************)
(* The regression gate (crates/inference/cli: parity.rs, parity/compare.rs)*)
(* of one case: the same run as a chain of programs, as the checkpointed   *)
(* runner of this repository, both without authentication, and in the      *)
(* direct runtime; each leaves a directory with a boundary per stage, and  *)
(* the gate judges the three of them.                                      *)
(*                                                                         *)
(* A boundary is the value it stands for: what its stage read.  The three  *)
(* paths are right, or some of them deviate in one way in one boundary.    *)
(***************************************************************************)
EXTENDS DirectRun, FiniteSetsExt, Functions

VARIABLES
  deviation,  (* what is wrong in this case, and in whose directories         *)
  verdict     (* "none", "passed" or "failed"                                 *)

gateVars == <<deviation, verdict>>

Paths == {"raster", "native", "direct"}
NoDeviation == [kind |-> "none", paths |-> {}, name |-> Single("none")]

(* The imported model of the gate: four layers, of which the last two use  *)
(* the caches of the first two.                                            *)
IsBundle(s) ==
  /\ s.layers = 4 /\ s.shared = 2
  /\ \A n \in Layers(s) : KvDonor(s, n) = IF n < 2 THEN -1 ELSE n - 2

(* The chain as the gate expects it, in its order: pass after pass. *)
AuxNames(s, p) == [i \in 1 .. s.layers |-> AuxName(p, i - 1)]
RangeNames(s, p) == [i \in 1 .. s.layers |-> RangeName(p, i - 1)]
PassNames(s, t) ==
  <<SelectName(t), EmbedName(t)>> \o AuxNames(s, t) \o RangeNames(s, t) \o <<FinalizeName(t)>>
PassLength(s) == 2 * s.layers + 3
PassesNames(s, tokens) ==
  [i \in 1 .. (tokens * PassLength(s)) |->
     PassNames(s, (i - 1) \div PassLength(s))[((i - 1) % PassLength(s)) + 1]]
StagedNames(s, tokens, batches) ==
  <<Single("prompt_merge_seed")>> \o [b \in 1 .. batches |-> Name("prompt_merge", b - 1, 0)]
  \o <<Single("prompt_prepare"), Embedding>> \o AuxNames(s, -1) \o RangeNames(s, -1)
  \o <<FinalizeName(-1), Single("decode_init")>>
  \o PassesNames(s, tokens) \o <<Single("output_finalize")>>

-----------------------------------------------------------------------------
(* What a path leaves: the boundaries it lists, each at its place in the   *)
(* order of execution, which the gate does not ask of the direct runtime   *)
(* (its list has gaps); their directories; their values, and which of them *)
(* report bad rows or are authenticated; and the producers bound to the    *)
(* donors of a layer.                                                      *)

DonorParams == {"donor_a_kv", "donor_b_kv"}
Right(path) ==
  LET staged == [i \in DOMAIN chain |-> chain[i].name]
      names == IF path = "direct" THEN Restrict(staged, {i \in DOMAIN staged : staged[i] \in DOMAIN records})
               ELSE staged
  IN  [names |-> names, dirs |-> Range(names),
       values |-> IF path = "direct" THEN records ELSE [n \in StageNames |-> ChainReads(n)],
       errors |-> {}, authenticated |-> {},
       donors |-> [n \in {m \in StageNames : IsRange(m)} |->
                     [p \in DonorParams |-> StageNamed(n).inputs[p].name]]]

Without(names, name) == Restrict(names, {i \in DOMAIN names : names[i] /= name})
AtEnd(names, name) == Extended(names, [i \in {Max(DOMAIN names) + 1} |-> name])
Deviating(dir, kind, name) ==
  CASE kind = "missing" -> [dir EXCEPT !.names = Without(dir.names, name), !.dirs = @ \ {name}]
    [] kind = "unpublished" -> [dir EXCEPT !.dirs = @ \ {name}]
    [] kind = "stray" -> [dir EXCEPT !.dirs = @ \cup {name}]
    [] kind = "twice" -> [dir EXCEPT !.names = AtEnd(dir.names, name)]
    [] kind = "late" -> [dir EXCEPT !.names = AtEnd(Without(dir.names, name), name)]
    [] kind = "value" -> [dir EXCEPT !.values = [n \in DOMAIN @ |-> IF n = name THEN [wrong |-> name] ELSE @[n]]]
    [] kind = "errors" -> [dir EXCEPT !.errors = {name}]
    [] kind = "authenticated" -> [dir EXCEPT !.authenticated = {name}]
    [] kind = "donor" -> [dir EXCEPT !.donors[name].donor_a_kv = Embedding]

Left(path, d) ==
  IF path \in d.paths /\ (d.kind = "stray" \/ d.name \in Right(path).dirs)
  THEN Deviating(Right(path), d.kind, d.name) ELSE Right(path)

-----------------------------------------------------------------------------
(* The checks.                                                             *)

(* A faulty variant: nothing is missing, but more may be there. *)
NothingMissing(expected, actual) == expected \subseteq actual
CheckInventory(expected, actual) == actual = expected

(* The stages whose value says which rows were bad. *)
HasErrors(name) ==
  name[1] \notin {"prompt_prepare", "prompt_merge_seed", "prompt_merge", "decode_init",
                  "output_finalize", "decode_select"}

ReadBoundaries(dir, expected) ==
  /\ IsInjective(dir.names) /\ CheckInventory(expected, Range(dir.names))
  /\ CheckInventory(expected, dir.dirs)
  /\ dir.authenticated = {}
  /\ \A n \in dir.errors : ~HasErrors(n)

ValidDonors(dir) ==
  \A p \in -1 .. (spec.tokens - 1) : \A n \in {2, 3} :
    /\ dir.donors[RangeName(p, n)].donor_a_kv = RangeName(p, 0)
    /\ dir.donors[RangeName(p, n)].donor_b_kv = RangeName(p, 1)

RunCase(raster, native, direct) ==
  LET staged == StagedNames(Shape, spec.tokens, spec.batches)
      inDirect == BoundaryNames(Shape, spec.tokens)
  IN  /\ \A dir \in {raster, native} :
           ReadBoundaries(dir, Range(staged)) /\ dir.names = staged /\ ValidDonors(dir)
      /\ ReadBoundaries(direct, inDirect)
      /\ \A n \in Range(staged) : raster.values[n] = native.values[n]
      /\ \A n \in Range(staged) \cap inDirect : native.values[n] = direct.values[n]

-----------------------------------------------------------------------------
InitGate == deviation = NoDeviation /\ verdict = "none"

Deviations ==
  [kind : {"missing", "unpublished", "stray", "twice", "late", "value", "errors", "authenticated"},
   paths : {{"raster"}, {"native"}, {"direct"}, {"raster", "native"}, Paths},
   name : StageNames]
  \cup [kind : {"donor"}, paths : {{"raster"}, {"native"}, {"raster", "native"}},
        name : {RangeName(p, n) : p \in -1 .. (spec.tokens - 1), n \in {2, 3}}]

Judge ==
  /\ step = "done" /\ verdict = "none"
  /\ IsBundle(Shape)
  /\ directSpec.tokens = spec.tokens /\ directSpec.batches = spec.batches /\ ~directSpec.compare
  /\ deviation' \in {NoDeviation} \cup Deviations
  /\ verdict' = IF RunCase(Left("raster", deviation'), Left("native", deviation'), Left("direct", deviation'))
                THEN "passed" ELSE "failed"
  /\ UNCHANGED <<expansionVars, directVars>>

-----------------------------------------------------------------------------
(* The gate passes a case in which nothing is wrong.  It refuses a boundary*)
(* that is missing, executed twice or out of place, stray, bad, or bound to*)
(* another donor, even if all paths agree in it; and a wrong value if one  *)
(* of the three has the boundary and is right.                             *)
Has(path, name) == path /= "direct" \/ name \in BoundaryNames(Shape, spec.tokens)
IsWrongIn(path) ==
  CASE deviation.kind = "stray" -> ~Has(path, deviation.name)
    [] deviation.kind = "late" -> path /= "direct" /\ deviation.name /= chain[Len(chain)].name
    [] deviation.kind = "errors" -> Has(path, deviation.name) /\ HasErrors(deviation.name)
    [] deviation.kind = "value" ->
         Has(path, deviation.name) /\ \E other \in Paths \ deviation.paths : Has(other, deviation.name)
    [] OTHER -> Has(path, deviation.name)

GateIsExact ==
  verdict /= "none" => (verdict = "passed" <=> \A path \in deviation.paths : ~IsWrongIn(path))
=============================================================================
