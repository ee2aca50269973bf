---------------------------- MODULE PathMatcher -----------------------------
(* The path matcher and the header rules of package http, as operators.     *)
(* Paths and patterns are sequences of components; a component of a pattern *)
(* is a literal, "*" or "**".  The tree of PathSegments is the set of the   *)
(* patterns added to it: its nodes are their prefixes.                      *)
EXTENDS Naturals, Sequences, SequencesExt, FiniteSets

CONSTANT LowerCase   \* the upper case literals in use -> the same in lower case

Star == "*"
Deep == "**"
NoNode == <<"no node">>

ToLower(c) == IF c \in DOMAIN LowerCase THEN LowerCase[c] ELSE c

(* components: method, path and verb in one sequence, all in lower case.    *)
Components(method, path, verb) ==
    <<method>> \o [k \in DOMAIN path |-> ToLower(path[k])]
               \o (IF verb = "" THEN <<>> ELSE <<ToLower(verb)>>)

(* components refuses a verb that stands alone behind the last slash.       *)
StandaloneVerb(path, verb) == verb # "" /\ path # <<>> /\ Last(path) = ""

(* A template is a sequence of segments: a literal or wildcard, or a        *)
(* variable with the pattern it stands for, "*" unless it gives one.        *)
Lit(c) == [var |-> FALSE, pat |-> <<c>>]
Var(pat) == [var |-> TRUE, pat |-> pat]

TemplateConvert(template) ==
    FlattenSeq([k \in DOMAIN template |->
        IF template[k].pat = <<>> THEN <<Star>> ELSE template[k].pat])

(* AddPattern: the node a binding is added to.                              *)
AddPattern(binding) ==
    Components(binding.method, TemplateConvert(binding.template), binding.verb)

-----------------------------------------------------------------------------
(* A node's children: the components that follow it in a pattern.           *)
Children(pats, node) ==
    {p[Len(node) + 1] : p \in {q \in pats : Len(q) > Len(node) /\ IsPrefix(node, q)}}

(* The tree's nodes: the root and all that leads to a pattern.              *)
Nodes(pats) == {<<>>} \cup UNION {{SubSeq(p, 1, n) : n \in 1..Len(p)} : p \in pats}

(* Faulty variant: "*" before the literal child.                            *)
MatchStarFirst(pats, comps) ==
    LET match[k \in 1..Len(comps) + 1, node \in Nodes(pats)] ==
            IF k > Len(comps) THEN (IF node \in pats THEN node ELSE NoNode)
            ELSE LET kids == Children(pats, node)
                     Down(c) == IF c \in kids THEN match[k + 1, Append(node, c)] ELSE NoNode
                 IN IF Down(Star) # NoNode THEN Down(Star) ELSE Down(comps[k])
    IN match[1, <<>>]

(* matchInternal: the node whose rules are to answer.  Literal children are *)
(* tried first, then "*", then "**", with backtracking; below "**" each     *)
(* component is tried as a literal, and as "*" only if no literal child has *)
(* that name.  match[k, node] is the call with the components from k on.    *)
MatchInternal(pats, comps) ==
    LET match[k \in 1..Len(comps) + 1, node \in Nodes(pats)] ==
            LET kids == Children(pats, node)
                Down(c) == IF c \in kids THEN match[k + 1, Append(node, c)] ELSE NoNode
                deep == Append(node, Deep)
                deepKids == Children(pats, deep)
                Try(i) == CASE comps[i] \in deepKids -> match[i, deep]
                            [] comps[i] \notin deepKids /\ Star \in deepKids -> match[i + 1, deep]
                            [] OTHER -> NoNode
                hits == {i \in k..Len(comps) : Try(i) # NoNode}
            IN IF k > Len(comps) THEN (IF node \in pats THEN node ELSE NoNode)
               ELSE CASE comps[k] = "" -> NoNode
                      [] comps[k] # "" /\ Down(comps[k]) # NoNode -> Down(comps[k])
                      [] comps[k] # "" /\ Down(comps[k]) = NoNode /\ Down(Star) # NoNode -> Down(Star)
                      [] OTHER -> IF Deep \notin kids THEN NoNode
                                  ELSE IF hits # {} THEN Try(CHOOSE i \in hits : \A j \in hits : i <= j)
                                  ELSE IF deep \in pats THEN deep ELSE NoNode
    IN match[1, <<>>]

-----------------------------------------------------------------------------
(* adjustHeaderRuleCount: rules that ask for the same headers count once.   *)
HeaderRuleCount(metas) ==
    IF Len(metas) > 1 THEN Cardinality({metas[k].headers : k \in DOMAIN metas}) ELSE Len(metas)

(* EstimateHeader: X-F-Service decides, but only among several.             *)
EstimateHeader(request, meta, count) == count = 1 \/ request.service \in meta.headers

(* MatchWithMeta: the rules of the one node found, without those that the   *)
(* caller's estimate (accepted) or the headers refuse, in the order in      *)
(* which they were added: the comparison of the stable sort compares a rule *)
(* with itself.                                                             *)
MatchWithMeta(table, request, accepted) ==
    LET node == MatchInternal({AddPattern(table[k]) : k \in DOMAIN table},
                              Components(request.method, request.path, request.verb))
        found == IF StandaloneVerb(request.path, request.verb) THEN NoNode ELSE node
        metas == SelectSeq(table, LAMBDA m : AddPattern(m) = found)
    IN SelectSeq(metas, LAMBDA m : m \in accepted /\ EstimateHeader(request, m, HeaderRuleCount(metas)))

-----------------------------------------------------------------------------
(* Reference: what a pattern stands for.  "**" stands for at least "least"  *)
(* components.                                                              *)
Stands(p, c, least) ==
    LET stands[i \in 1..Len(p) + 1, k \in 1..Len(c) + 1] ==
            IF i > Len(p) THEN k > Len(c)
            ELSE IF p[i] = Deep THEN \E n \in least..Len(c) + 1 - k : stands[i + 1, k + n]
            ELSE k <= Len(c) /\ c[k] # "" /\ p[i] \in {c[k], Star} /\ stands[i + 1, k + 1]
    IN stands[1, 1]

(* Reference: p says more than q where they first differ.                   *)
Specificity(p, i) ==
    IF i > Len(p) THEN 4 ELSE CASE p[i] = Deep -> 3 [] p[i] = Star -> 2 [] OTHER -> 1
MoreSpecific(p, q) ==
    \E i \in 1..(Len(p) + Len(q)) :
        /\ Specificity(p, i) < Specificity(q, i)
        /\ \A j \in 1..(i - 1) : j <= Len(p) /\ j <= Len(q) /\ p[j] = q[j]

(* No "**" is followed by a literal in one pattern and by "*" in another.   *)
Unmixed(pats) ==
    \A p \in pats : \A i \in DOMAIN p :
        p[i] = Deep => LET kids == Children(pats, SubSeq(p, 1, i))
                       IN Star \notin kids \/ kids \subseteq {Star, Deep}
=============================================================================
