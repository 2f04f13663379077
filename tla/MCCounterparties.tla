-------------------------- MODULE MCCounterparties --------------------------
(***************************************************************************)
(* Counterparties for TLC: settlements, audits, listings, environments and  *)
(* calls.                                                                   *)
(***************************************************************************)
EXTENDS Counterparties, TLC

\* Handler threads differ in nothing but their name.
ThreadSymmetry == Permutations(Threads)

-----------------------------------------------------------------------------
(* Evidence: three payers, three payees, one of which pays itself and others, *)
(* and a mint.                                                               *)

Settlement(src, from, to, amount) == [src |-> src, from |-> from, to |-> to, amount |-> amount]

\* The payee x at two prices in both sources, its own payments, a mint, and payments of
\* its own and of one of its payers to the two other payees.
Settlements ==
    {Settlement("store", "a", "x", 4), Settlement("store", "b", "x", 40), Settlement("store", "c", "x", 4),
     Settlement("store", "x", "x", 40), Settlement("store", "mint", "x", 4),
     Settlement("ledger", "a", "x", 40), Settlement("ledger", "x", "x", 40),
     Settlement("store", "x", "y", 8), Settlement("store", "b", "w", 16)}

Catalog == ("x" :> <<[low |-> 4, high |-> 44], [low |-> 4, high |-> 8]>>)
           @@ ("y" :> <<[low |-> 4, high |-> 4]>>) @@ ("w" :> <<>>)

MCPayees == {"x", "y", "w"}
Categories == [p \in MCPayees |-> "finance"]

-----------------------------------------------------------------------------
(* Sellers: one merchant, two badges, audits that differ in one respect.     *)

Audited(ready, dispute, peer) ==
    [clear |-> TRUE, ready |-> ready, dispute |-> dispute, peer |-> peer, history |-> 1]

Audits == {Audited(2, 0, 0), Audited(1, 0, 0), Audited(2, 0, 1), Audited(2, 1, 0)}

\* Published lists of sanctioned addresses.
Published == {{"a"}, {"b"}, {}}

-----------------------------------------------------------------------------
(* Portal: two payees, one host advertised by both, and a key nobody has.     *)
Row(payee, hosts, n, asset) ==
    [payee |-> payee, hosts |-> hosts, settlements |-> n, id |-> "ok", asset |-> asset,
     verdict |-> "GO", cross |-> "some", price |-> "clear"]

Listings == {Row("p", <<"a", "b">>, 2, "clean"), Row("q", <<"b">>, 1, "malformed")}

-----------------------------------------------------------------------------
(* Preflight: a plain deployment varied one or two settings at a time.       *)

Knobs == [free |-> 4, bps |-> 10, min |-> 1, max |-> 6, ratio |-> 20]
Plain == [payTo |-> "good", network |-> "base", asset |-> "none", price |-> 2, flag |-> "1",
          knobs |-> Knobs, url |-> "open", cdp |-> "none", offline |-> FALSE, cost |-> 0 - 3]
Vary(cs, field, values) == {[c EXCEPT ![field] = v] : c \in cs, v \in values}

Pricings == {Knobs, [Knobs EXCEPT !.bps = 0 - 1], [Knobs EXCEPT !.bps = 20],
             [Knobs EXCEPT !.min = 3, !.free = 0], [Knobs EXCEPT !.ratio = 0, !.min = 8]}
Environments ==
    Vary(Vary(Vary({Plain}, "knobs", Pricings), "flag", {"unset", "0", "1"}), "price", {0, 1, 40})
    \cup Vary(Vary(Vary({Plain}, "url", {"none", "open", "other"}), "cdp", {"none", "half", "both"}),
              "cost", {0 - 3, 1, 2})
    \cup Vary({Plain}, "payTo", {"none", "bad"}) \cup Vary({Plain}, "offline", {TRUE})
    \cup Vary(Vary({Plain}, "network", {"base-sepolia", "svm:1", "solana"}),
              "asset", {"none", "mint", "euro", "dai", "odd"})

Sound == [up |-> TRUE, readable |-> TRUE, listed |-> TRUE, versions |-> {1, 2}, creds |-> TRUE, scope |-> TRUE]
Facilitators ==
    UNION {Vary({Sound}, f, {TRUE, FALSE}) : f \in {"up", "readable", "listed", "creds", "scope"}}
    \cup Vary({Sound}, "versions", {{1}, {}})

Sellers == {[payee |-> "p", lo |-> 5, hi |-> 20], [payee |-> "q", lo |-> 12, hi |-> 60],
            [payee |-> "r", lo |-> 3, hi |-> 30]}

\* What clients send: every side of every price bound, and paths that climb.
Ask(amount, path) == [amount |-> amount, resource |-> [origin |-> "theirs", path |-> path]]
Calls == {Ask(a, <<"v1">>) : a \in {0 - 2, 3, 5, 12, 20, 75}}
         \cup {Ask(20, path) : path \in {<<"..", "..", "v1">>, <<"x%2f..", "..", "v1">>, <<"v1", "x%2f..">>, <<>>}}
=============================================================================
