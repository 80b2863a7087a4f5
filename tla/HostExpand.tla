------------------------------ MODULE HostExpand ------------------------------
(****************************************************************************)
(* iprange.Expand: a list of prefixes becomes the list of hosts to scan,    *)
(* one candidate at a time.  IPv4 prefixes are enumerated, or strided by    *)
(* SamplePer24; IPv6 prefixes are enumerated if they are small and sampled  *)
(* at random otherwise; MaxTotal keeps a random sample of everything.       *)
(*                                                                          *)
(* The widths are constants (32, 8 and 128 in the program), an address is   *)
(* <<family, number>> and an entry of the list [fam, base, bits, bare] with *)
(* base already masked, or Invalid when it is neither a prefix nor an       *)
(* address.  A bare address is an entry with all its bits, which only the   *)
(* guard treats differently.  A random choice is any choice.                *)
(****************************************************************************)
EXTENDS Integers, Sequences, FiniteSets, Functions, SequencesExt, FiniteSetsExt

CONSTANTS W4, W6,                  \* bits of an address
          SubBits,                 \* host bits of a /24
          maxAutoPool,
          DefaultV6HostsPerCIDR,
          Invalid,
          Inputs                   \* records [cidrs, strategy] to expand

Width(e) == IF e.fam = 4 THEN W4 ELSE W6

Entry == {e \in [fam : {4}, base : 0..(2^W4 - 1), bits : 0..W4, bare : BOOLEAN]
                \union [fam : {6}, base : 0..(2^W6 - 1), bits : 0..W6, bare : BOOLEAN] :
            /\ e.bare => e.bits = Width(e)
            /\ e.base % 2^(Width(e) - e.bits) = 0}

Strategy == [SamplePer24 : Int, MaxHostsPerCIDR : Int, MaxTotal : Int,
             Family : SUBSET {4, 6}, MaxHostsPerV6CIDR : Int]

ASSUME ExpandAssumption ==
    /\ W4 \in Nat /\ W6 \in Nat /\ SubBits \in 0..W4
    /\ Invalid \notin Entry
    /\ maxAutoPool \in Nat \ {0} /\ DefaultV6HostsPerCIDR \in Nat \ {0}
    /\ \A input \in Inputs : /\ input.cidrs \in Seq(Entry \union {Invalid})
                             /\ input.strategy \in Strategy

VARIABLES s,          \* the strategy, with the MaxTotal the guard may have set
          asked,      \* the input as it was given (history)
          todo,       \* entries not yet looked at
          cur,        \* the entry being expanded, or <<>>
          i,          \* offset of the next host of an enumeration
          emitted,    \* hosts emitted from cur
          drawn, tries,   \* of a random sample: hosts drawn, draws made
          seen, out, n,   \* of emit: dedup set, result, candidates considered
          outcome      \* "running" | "done" | "error"

entryVars == <<todo, cur, i, emitted, drawn, tries>>
expandVars == <<s, asked, entryVars, seen, out, n, outcome>>

-----------------------------------------------------------------------------
(* Sizes *)

total(e) == 2 ^ (Width(e) - e.bits)
Pool(e)  == {<<e.fam, e.base + k>> : k \in 0..(total(e) - 1)}

\* The hosts the guard counts: those of every IPv4 prefix, once for each entry
\* that has them; it does not count bare addresses.
Counted(cidrs) == UNION {{k} \X Pool(cidrs[k]) : k \in
    {j \in DOMAIN cidrs : cidrs[j] # Invalid /\ cidrs[j].fam = 4 /\ ~cidrs[j].bare}}

\* The guard of the unbounded default: the MaxTotal to work with.
autoTotal(cidrs, st) ==
    IF /\ st.MaxTotal <= 0 /\ st.MaxHostsPerCIDR <= 0 /\ st.SamplePer24 <= 0
       /\ Cardinality(Counted(cidrs)) > maxAutoPool
    THEN maxAutoPool ELSE st.MaxTotal

\* Faulty variant: the stride is rounded up, so that some /24s are left out.
strideUp(e) ==
    LET want == 2 ^ (Width(e) - e.bits - SubBits) * s.SamplePer24
    IN  IF s.SamplePer24 > 0 /\ Width(e) - e.bits > SubBits /\ want < total(e)
        THEN total(e) \div want + 1 ELSE 1

\* The distance of the hosts taken from an IPv4 prefix.
stride(e) ==
    LET want == 2 ^ (Width(e) - e.bits - SubBits) * s.SamplePer24
    IN  IF s.SamplePer24 > 0 /\ Width(e) - e.bits > SubBits /\ want < total(e)
        THEN total(e) \div want ELSE 1

\* How many hosts are taken from an IPv6 prefix.
limit(st) ==
    LET own == IF st.MaxHostsPerV6CIDR <= 0 THEN DefaultV6HostsPerCIDR
               ELSE st.MaxHostsPerV6CIDR
    IN  IF st.MaxHostsPerCIDR > 0 /\ st.MaxHostsPerCIDR < own
        THEN st.MaxHostsPerCIDR ELSE own

\* An IPv6 prefix that is not enumerated.
Sampled(e) == e.fam = 6 /\ total(e) > limit(s)

-----------------------------------------------------------------------------
ExpandInit == /\ \E input \in Inputs :
                   /\ asked = input
                   /\ todo = input.cidrs
                   /\ s = [input.strategy EXCEPT !.MaxTotal = autoTotal(input.cidrs, input.strategy)]
              /\ cur = <<>> /\ i = 0 /\ emitted = 0
              /\ drawn = {} /\ tries = 0
              /\ seen = {} /\ out = <<>> /\ n = 0
              /\ outcome = "running"

\* Faulty variant: candidates are not de-duplicated.
emitTwice(a) ==
    IF s.MaxTotal <= 0
    THEN out' = Append(out, a) /\ UNCHANGED <<seen, n>>
    ELSE /\ n' = n + 1 /\ seen' = seen
         /\ IF Len(out) < s.MaxTotal THEN out' = Append(out, a)
            ELSE \E j \in 0..n : out' = IF j < s.MaxTotal THEN [out EXCEPT ![j + 1] = a] ELSE out

\* emit: without MaxTotal a new address is appended; with it the reservoir is
\* filled, then each later candidate may replace any slot.
emit(a) ==
    IF s.MaxTotal <= 0
    THEN /\ out' = IF a \in seen THEN out ELSE Append(out, a)
         /\ seen' = seen \union {a} /\ n' = n
    ELSE /\ n' = n + 1 /\ seen' = seen
         /\ IF Len(out) < s.MaxTotal THEN out' = Append(out, a)
            ELSE \E j \in 0..n : out' = IF j < s.MaxTotal THEN [out EXCEPT ![j + 1] = a] ELSE out

\* Faulty variant: a malformed entry is expanded like the others.
NextEntryUnparsed ==
    /\ outcome = "running" /\ cur = <<>> /\ todo # <<>>
    /\ LET e == Head(todo) IN
         cur' = IF e = Invalid \/ e.fam \in s.Family THEN <<e>> ELSE <<>>
    /\ todo' = Tail(todo)
    /\ i' = 0 /\ emitted' = 0 /\ drawn' = {} /\ tries' = 0
    /\ UNCHANGED <<s, asked, seen, out, n, outcome>>

\* The next entry: a malformed one ends the expansion, one of another family is
\* skipped.
NextEntry ==
    /\ outcome = "running" /\ cur = <<>> /\ todo # <<>>
    /\ LET e == Head(todo) IN
         IF e = Invalid THEN outcome' = "error" /\ out' = <<>> /\ cur' = cur
         ELSE /\ cur' = IF e.fam \in s.Family THEN <<e>> ELSE <<>>
              /\ UNCHANGED <<outcome, out>>
    /\ todo' = Tail(todo)
    /\ i' = 0 /\ emitted' = 0 /\ drawn' = {} /\ tries' = 0
    /\ UNCHANGED <<s, asked, seen, n>>

\* Faulty variant: the cap for one prefix lets one more host through.
MoreCap(e) == /\ i < total(e)
              /\ ~(e.fam = 4 /\ s.MaxHostsPerCIDR > 0 /\ emitted > s.MaxHostsPerCIDR)

\* The loop condition of an enumeration.
More(e) == /\ i < total(e)
           /\ ~(e.fam = 4 /\ s.MaxHostsPerCIDR > 0 /\ emitted >= s.MaxHostsPerCIDR)

\* One round of the loop of expandPrefix4, or of the loop of expandPrefix6 over
\* a small prefix.
Enumerate ==
    /\ cur # <<>>
    /\ LET e == Head(cur) IN
         /\ ~Sampled(e) /\ More(e)
         /\ emit(<<e.fam, e.base + i>>)
         /\ i' = i + (IF e.fam = 4 THEN stride(e) ELSE 1)
         /\ emitted' = emitted + 1
    /\ UNCHANGED <<s, asked, todo, cur, drawn, tries, outcome>>

\* One draw from a large IPv6 prefix; a host drawn before counts as a try only.
Draw ==
    /\ cur # <<>>
    /\ LET e == Head(cur) IN
         /\ Sampled(e) /\ Cardinality(drawn) < limit(s) /\ tries < 4 * limit(s)
         /\ \E a \in Pool(e) :
              /\ drawn' = drawn \union {a}
              /\ IF a \in drawn THEN UNCHANGED <<emitted, seen, out, n>>
                 ELSE emitted' = emitted + 1 /\ emit(a)
    /\ tries' = tries + 1
    /\ UNCHANGED <<s, asked, todo, cur, i, outcome>>

\* The loop over the current prefix ends.
EndEntry ==
    /\ cur # <<>>
    /\ LET e == Head(cur) IN
         IF Sampled(e) THEN Cardinality(drawn) >= limit(s) \/ tries >= 4 * limit(s)
         ELSE ~More(e)
    /\ cur' = <<>>
    /\ UNCHANGED <<s, asked, todo, i, emitted, drawn, tries, seen, out, n, outcome>>

Return == /\ outcome = "running" /\ cur = <<>> /\ todo = <<>>
          /\ outcome' = "done"
          /\ UNCHANGED <<s, asked, entryVars, seen, out, n>>

ExpandNext == NextEntry \/ Enumerate \/ Draw \/ EndEntry \/ Return

ExpandSpec == ExpandInit /\ [][ExpandNext]_expandVars

-----------------------------------------------------------------------------
(* Properties *)

\* Type invariant of an expansion.
ExpandTypeOK == /\ asked \in Inputs /\ s \in Strategy
                /\ todo \in Seq(Entry \union {Invalid})
                /\ cur = <<>> \/ Head(cur) \in Entry
                /\ i \in Nat /\ emitted \in Nat /\ tries \in Nat /\ n \in Nat
                /\ IsFiniteSet(drawn) /\ IsFiniteSet(seen)
                /\ out \in Seq({4, 6} \X Int)
                /\ outcome \in {"running", "done", "error"}

Allowed == {e \in Range(asked.cidrs) \ {Invalid} : e.fam \in asked.strategy.Family}
Hosts   == UNION {Pool(e) : e \in Allowed}

\* The places of the bare addresses in the list.
Bare == {k \in DOMAIN asked.cidrs : asked.cidrs[k] # Invalid /\ asked.cidrs[k].bare}

\* Whatever is sampled, strided or replaced, only addresses of the listed
\* prefixes of the selected families are scanned.  Without a cap, and with a
\* pool that is not oversized, every IPv4 address of them is scanned exactly
\* once even if they overlap, and so is every IPv6 prefix within its limit.
FullPoolOnce ==
    /\ Range(out) \subseteq Hosts
    /\ outcome = "done" /\ s.MaxTotal <= 0 /\ s.MaxHostsPerCIDR <= 0 /\ s.SamplePer24 <= 0 =>
        /\ IsInjective(out)
        /\ UNION {Pool(e) : e \in {f \in Allowed : ~Sampled(f)}} \subseteq Range(out)

\* The three budgets: the random sample is as large as it may be, MaxTotal hosts
\* or all candidates if they are fewer; without any cap an IPv4 result is no
\* larger than what the guard allows, bare addresses aside; one prefix gives no
\* more than its cap, an IPv6 prefix never more than its own limit.
BudgetsKept ==
    /\ s.MaxTotal > 0 /\ outcome # "error" =>
         Len(out) = IF n < s.MaxTotal THEN n ELSE s.MaxTotal
    /\ asked.strategy.Family = {4} /\ asked.strategy.MaxHostsPerCIDR <= 0
       /\ asked.strategy.SamplePer24 <= 0 /\ asked.strategy.MaxTotal <= 0
         => Len(out) <= maxAutoPool + Cardinality(Bare)
    /\ cur # <<>> =>
         /\ s.MaxHostsPerCIDR > 0 => emitted <= s.MaxHostsPerCIDR
         /\ Head(cur).fam = 6 => emitted <= (IF s.MaxHostsPerV6CIDR > 0 THEN s.MaxHostsPerV6CIDR
                                             ELSE DefaultV6HostsPerCIDR)

\* The /24s of a prefix, and the hosts taken from one.
Subnets(e)  == {k \in 0..(2 ^ (W4 - SubBits) - 1) :
                  \E h \in Pool(e) : h[2] \div 2 ^ SubBits = k}
Taken(k)    == {h \in Range(out) : h[1] = 4 /\ h[2] \div 2 ^ SubBits = k}
OnlyStrided == /\ asked.strategy.SamplePer24 > 0
               /\ asked.strategy.MaxHostsPerCIDR <= 0 /\ asked.strategy.MaxTotal <= 0

\* Striding passes over no /24: each one of a prefix longer than a /24 gives at
\* least SamplePer24 hosts, or all it has.
EverySubnetSampled ==
    outcome = "done" /\ OnlyStrided =>
        \A e \in {f \in Allowed : f.fam = 4 /\ f.bits <= W4 - SubBits} : \A k \in Subnets(e) :
            Cardinality(Taken(k)) >= Min({asked.strategy.SamplePer24, 2 ^ SubBits})

=============================================================================
