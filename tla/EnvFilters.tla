----------------------------- MODULE EnvFilters -----------------------------
(***************************************************************************)
(* The environment's filters (loader_environment.c): lists of tokens that  *)
(* select layers, drivers or physical devices.  A name or a token is a     *)
(* sequence of letters; a token may begin or end with a star, or be one of *)
(* the words ~all~, ~implicit~ and ~explicit~, which are one letter here.  *)
(* Both sides are in lower case already.  What is stored is at most as     *)
(* long as a name can be, so nothing is said of truncation.                *)
(***************************************************************************)
EXTENDS Naturals, Sequences, FiniteSets, SequencesExt

CONSTANT MAX_ADDITIONAL_FILTERS   \* filters that fit into one variable's list

ASSUME MaxFiltersAssumption == MAX_ADDITIONAL_FILTERS \in Nat \ {0}

Star == "*"
AllLayers == <<"~all~">>
ImplicitLayers == <<"~implicit~">>
ExplicitLayers == <<"~explicit~">>
Specials == {AllLayers, ImplicitLayers, ExplicitLayers}

\* Faulty variant: both stars are taken off, but the token is matched as a suffix.
DetermineFilterTypeOneStar(token) ==
  LET n == Len(token)
  IN IF token \in Specials THEN [type |-> "special", value |-> token]
     ELSE IF Head(token) = Star /\ n # 1 /\ token[n] = Star /\ n # 2
       THEN [type |-> "suffix", value |-> SubSeq(token, 2, n - 1)]
     ELSE IF Head(token) = Star /\ n # 1 THEN [type |-> "suffix", value |-> Tail(token)]
     ELSE IF token[n] = Star /\ n # 2 THEN [type |-> "prefix", value |-> Front(token)]
     ELSE [type |-> "fullname", value |-> token]

\* determine_filter_type.  The cases for a lone star and for two of them set
\* FILTER_STRING_SPECIAL, but go on to the tests below, which overwrite it.
DetermineFilterType(token) ==
  LET n == Len(token)
      star_begin == Head(token) = Star /\ n # 1
      star_end == token[n] = Star /\ n # 2
  IN CASE token \in Specials -> [type |-> "special", value |-> token]
       [] token \notin Specials /\ star_begin /\ star_end ->
            [type |-> "substring", value |-> SubSeq(token, 2, n - 1)]
       [] token \notin Specials /\ star_begin /\ ~star_end ->
            [type |-> "suffix", value |-> Tail(token)]
       [] token \notin Specials /\ ~star_begin /\ star_end ->
            [type |-> "prefix", value |-> Front(token)]
       [] OTHER -> [type |-> "fullname", value |-> token]

\* parse_generic_filter_environment_var: the first tokens of the variable.
ParseGenericFilter(tokens) ==
  LET n == Len(tokens)
  IN [i \in 1 .. (IF n < MAX_ADDITIONAL_FILTERS THEN n ELSE MAX_ADDITIONAL_FILTERS)
        |-> DetermineFilterType(tokens[i])]

\* parse_layers_disable_filter_environment_var.  Special words take no room; the
\* loop ends with the token that fills the list, whatever follows it.
ParseDisableFilter(tokens) ==
  LET special(t) == DetermineFilterType(t).type = "special"
      ordinary(i) == Cardinality({j \in 1 .. i : ~special(tokens[j])})
      read == {i \in DOMAIN tokens : \A j \in 1 .. (i - 1) :
                  ordinary(j) < MAX_ADDITIONAL_FILTERS}
      says(word) == \E i \in read : tokens[i] = word
      kept == SelectSeq(SubSeq(tokens, 1, Cardinality(read)), LAMBDA t : ~special(t))
  IN [disable_all |-> says(AllLayers),
      disable_all_implicit |-> says(ImplicitLayers),
      disable_all_explicit |-> says(ExplicitLayers),
      additional_filters |-> [i \in DOMAIN kept |-> DetermineFilterType(kept[i])]]

\* parse_layer_environment_var_filters.  (An allocation failure ends the call.)
ParseLayerFilters(enable, disable, allow) ==
  [enable_filter |-> ParseGenericFilter(enable),
   disable_filter |-> ParseDisableFilter(disable),
   allow_filter |-> ParseGenericFilter(allow)]

\* One turn of the loop of check_name_matches_filter_environment_var.  Names of
\* layers are longer than the special words.
SegmentMatches(name, from, value) ==
  SubSeq(name, from, from + Len(value) - 1) = value

FilterMatches(name, filter) ==
  LET n == Len(name)
      k == Len(filter.value)
  IN \/ filter.type = "special" /\ filter.value = AllLayers
     \/ /\ filter.type # "special"
        /\ k <= n
        /\ CASE filter.type = "substring" -> \E s \in 1 .. (n - k + 1) : SegmentMatches(name, s, filter.value)
             [] filter.type = "suffix" -> SegmentMatches(name, n - k + 1, filter.value)
             [] filter.type = "prefix" -> SegmentMatches(name, 1, filter.value)
             [] filter.type = "fullname" -> n = k /\ SegmentMatches(name, 1, filter.value)

\* check_name_matches_filter_environment_var.
NameMatchesFilter(name, filters) == \E i \in DOMAIN filters : FilterMatches(name, filters[i])

(***************************************************************************)
(* What a token is documented to select (the reference definition).        *)
(***************************************************************************)

IsSubstring(s, t) == \E i \in 0 .. (Len(t) - Len(s)) : SubSeq(t, i + 1, i + Len(s)) = s

\* A token without the stars at its ends.
Stem(token) == SubSeq(token, IF token[1] = Star THEN 2 ELSE 1,
                             IF token[Len(token)] = Star THEN Len(token) - 1 ELSE Len(token))

\* The name is the token with some text in place of each star at its ends.
Selects(token, name) ==
  \/ token = AllLayers
  \/ /\ token \notin Specials
     /\ \E i, j \in 0 .. Len(name) :
          LET before == SubSeq(name, 1, i)
              after == SubSeq(name, j + 1, Len(name))
          IN /\ i <= j
             /\ before # <<>> => token[1] = Star
             /\ after # <<>> => token[Len(token)] = Star
             /\ name = before \o Stem(token) \o after

\* Of two letters the second is no star: determine_filter_type does not see one there.
Distinguished(token) == Len(token) = 2 => token[2] # Star
=============================================================================
