------------------------------ MODULE EnvFile ------------------------------
(***************************************************************************)
(* The .env file that billbird init fills in (mergeEnvFile of              *)
(* cmd/billbird/init.go), line by line.  Comments and settings of no       *)
(* concern to init are left out: they are kept as they are, where they are.*)
(***************************************************************************)
EXTENDS Naturals, Sequences, SequencesExt, FiniteSets

CONSTANTS
  Key,        \* the settings that init knows
  MultiLine,  \* those whose value spans lines: GITHUB_PRIVATE_KEY
  NoKey       \* the key of a line that continues the value before it

ASSUME KeysAssumption ==
  MultiLine \subseteq Key /\ NoKey \notin Key /\ IsFiniteSet(Key)

\* A value is a number: 0 is the empty one.
Empty == 0

\* What a value looks like in the file.
Written(k, v) ==
  <<[key |-> k, val |-> v]>>
    \o (IF k \in MultiLine /\ v # Empty THEN <<[key |-> NoKey, val |-> v]>> ELSE <<>>)

\* Mutant of Rewritten: only a private key is preserved.
RewrittenUnlessLong(line, v, force) ==
  IF line.key = NoKey \/ (line.key \in MultiLine /\ line.val # Empty /\ ~force)
    THEN <<line>>
  ELSE Written(line.key, v)

\* What becomes of a line.  A line that continues a value has no key of init's
\* and is kept, whatever becomes of the line it continues.
Rewritten(line, v, force) ==
  IF line.key = NoKey \/ (line.val # Empty /\ ~force) THEN <<line>>
  ELSE Written(line.key, v)

Seen(lines) == {lines[p].key : p \in DOMAIN lines} \ {NoKey}

\* The keys in any order, since the code ranges over a map.
Orders(S) == {s \in [1 .. Cardinality(S) -> S] : \A p, q \in DOMAIN s :
                                                    s[p] = s[q] => p = q}

\* Mutant of Merges: seen is only noted for a value that is replaced.
MergesTwice(lines, v, force) ==
  {FlattenSeq([p \in DOMAIN lines |-> Rewritten(lines[p], v, force)])
     \o FlattenSeq([n \in DOMAIN order |-> Written(order[n], v)]) :
   order \in Orders({k \in Key : \A p \in DOMAIN lines :
                        lines[p].key = k => lines[p].val # Empty /\ ~force})}

\* The contents mergeEnvFile may write: the lines that were there, and then
\* the keys that were not.
Merges(lines, v, force) ==
  {FlattenSeq([p \in DOMAIN lines |-> Rewritten(lines[p], v, force)])
     \o FlattenSeq([n \in DOMAIN order |-> Written(order[n], v)]) :
   order \in Orders(Key \ Seen(lines))}

\* What a reader of the file takes a key to be: its last line counts.
Value(lines, k) ==
  LET at == {p \in DOMAIN lines : lines[p].key = k}
  IN  IF at = {} THEN Empty ELSE lines[CHOOSE p \in at : \A q \in at : q <= p].val

\* Every value that spans lines has all of its lines, and no line is left over.
Whole(lines) ==
  \A p \in DOMAIN lines :
    /\ lines[p].key \in MultiLine /\ lines[p].val # Empty =>
         p < Len(lines) /\ lines[p + 1] = [key |-> NoKey, val |-> lines[p].val]
    /\ lines[p].key = NoKey =>
         p > 1 /\ lines[p - 1].key \in MultiLine /\ lines[p - 1].val = lines[p].val

\* No key has two lines, and a line that continues a value is not blank.
WellFormed(lines) ==
  /\ \A p, q \in DOMAIN lines :
       lines[p].key = lines[q].key /\ lines[p].key # NoKey => p = q
  /\ \A p \in DOMAIN lines : lines[p].key = NoKey => lines[p].val # Empty

=============================================================================
