----------------------- MODULE MCResponseNormalizer ------------------------
(* The payout under its own name and two of its spellings, a field with a  *)
(* default only, and a field that is dropped; every order of the keys.     *)
EXTENDS ResponseNormalizer, SequencesExt

MCKeys   == {"payout_amount", "amount", "amount_paid", "tier", "claim_id"}
Payouts  == {"payout_amount", "amount", "amount_paid"}

\* A value is told apart by the key it was stated under.
MCValues == MCKeys \cup {"default"}

NoAlias   == [k \in MCKeys |-> None]
NoDefault == [k \in MCKeys |-> None]

\* config/permissions.yaml as shipped, as far as these keys go.
Shipped == [aliases  |-> [NoAlias EXCEPT !["amount"] = "payout_amount",
                                         !["amount_paid"] = "payout_amount"],
            drop     |-> {"claim_id"},
            defaults |-> [NoDefault EXCEPT !["payout_amount"] = "default", !["tier"] = "default"]]

\* Accepted by the loader as well: an alias of an alias, a default for a name
\* that is dropped, an alias that is dropped and an alias of itself.
Chained == [aliases  |-> [NoAlias EXCEPT !["amount"] = "amount_paid",
                                         !["amount_paid"] = "payout_amount",
                                         !["tier"] = "tier", !["claim_id"] = "amount"],
            drop     |-> {"claim_id"},
            defaults |-> [NoDefault EXCEPT !["claim_id"] = "default", !["tier"] = "default"]]

\* Accepted, and free of chains: a name that is dropped, an alias and has a
\* default, all three.
Overlapping == [Shipped EXCEPT !.drop = {"claim_id", "amount"},
                               !.defaults = [NoDefault EXCEPT !["amount"] = "default"]]

MCConfigs == {Shipped, Chained, Overlapping}

Object(keys, nulls) ==
    [wrappers |-> <<>>, kind |-> "object", keys |-> keys,
     fields   |-> [k \in MCKeys |-> IF \A i \in DOMAIN keys : keys[i] # k THEN Absent
                                    ELSE IF k \in nulls THEN Null ELSE k]]

KeySets == {S \in SUBSET MCKeys : Cardinality(S) <= 2} \cup {Payouts}
Objects == UNION {{Object(keys, nulls) : keys \in SetToSeqs(S), nulls \in SUBSET S} : S \in KeySets}

Wrapped(wrappers, kind) == [Object(IF kind = "object" THEN <<"amount">> ELSE <<>>, {})
                               EXCEPT !.wrappers = wrappers, !.kind = kind]

MCTexts == Objects
           \cup {Wrapped(w, "object") : w \in {<<"harmony">>, <<"fence">>, <<"harmony", "fence">>,
                                               <<"fence", "harmony">>, <<"fence", "fence">>}}
           \cup {Wrapped(<<>>, "prose"), Wrapped(<<"fence">>, "json")}
           \cup {Wrapped(w, "excessive") : w \in {<<>>, <<"harmony", "fence">>, <<"fence", "fence">>}}
=============================================================================
