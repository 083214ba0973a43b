--------------------------- MODULE WalletPromise ---------------------------
(***************************************************************************)
(* What the wallets are promised about one asset, however many requests run *)
(* at once: a request changes the allocations in one step, that is also the *)
(* step that changes what is held, and goes by all that is held and all     *)
(* that is allocated at that moment.  Nothing of it depends on what the     *)
(* request read earlier, or on who ran beside it, but for the standing rule *)
(* a purchase follows: that may be one that stood while the purchase ran.   *)
(* TenantWrites implements this.                                            *)
(***************************************************************************)
EXTENDS Integers, Functions

CONSTANTS
    Wallets,
    Amounts,   \* signed quantities of a transaction
    NoWallet

VARIABLES
    held,      \* what the positions of the asset hold
    alloc,     \* what each wallet is allocated of it
    wallets,   \* wallets that exist
    rule,      \* the wallet that purchases follow
    known      \* the rules that purchases under way have read

vars == <<held, alloc, wallets, rule, known>>

Total(f) == SumFunctionOnSet(f, Wallets)
Fits(f, limit) == Total(f) <= limit
Holders == {w \in Wallets : alloc[w] > 0}

Init ==
    /\ held \in Nat
    /\ alloc \in [Wallets -> Nat]
    /\ Fits(alloc, held)
    /\ wallets = Wallets
    /\ rule = NoWallet
    /\ known = {}

\* Every wallet's share of what is left to all of them, rounded half up; none
\* is emptied by its rounding.
Scale(keep) ==
    IF Total(alloc) = 0 THEN alloc' = alloc
    ELSE /\ alloc' = [w \in Wallets |-> (2 * alloc[w] * keep + Total(alloc)) \div (2 * Total(alloc))]
         /\ keep > 0 => \A w \in Holders : alloc'[w] > 0

\* A purchase reads the rule that stands; one that ends, however it ends,
\* forgets it.
ReadRule == known' = known \cup {rule} /\ UNCHANGED <<held, alloc, wallets, rule>>
Forget == known' \subseteq known

\* A purchase goes to the wallet of the rule it read, which must still exist,
\* else to the only one that holds the asset, else to none.
Followers(r) ==
    IF r # NoWallet THEN {r}
    ELSE {w \in Wallets : Holders = {w}}

Buy(q) ==
    /\ q > 0
    /\ \E r \in known :
         /\ Followers(r) \subseteq wallets
         /\ alloc' = [w \in Wallets |-> IF w \in Followers(r) THEN alloc[w] + q ELSE alloc[w]]
    /\ Fits(alloc', held')

\* A sale takes from every wallet its share.
Sell(q) ==
    /\ q > 0
    /\ Scale(IF q > Total(alloc) THEN 0 ELSE Total(alloc) - q)
    /\ Fits(alloc', held')

SellFrom(w, q) ==
    /\ q > 0 /\ q <= alloc[w]
    /\ alloc' = [alloc EXCEPT ![w] = @ - q]
    /\ Fits(alloc', held')

\* An edit or a deletion: what no longer fits is taken back.
Rewrite == IF Total(alloc) > held' THEN Scale(held') ELSE alloc' = alloc

LedgerWrite ==
    /\ \/ \E a \in Amounts : \/ Buy(a) \/ Sell(-a)
                             \/ \E w \in Wallets : SellFrom(w, -a)
       \/ Rewrite
    /\ held' \in Nat
    /\ UNCHANGED <<wallets, rule>>

Allocate(w, q) ==
    /\ w \in wallets
    /\ alloc' = [alloc EXCEPT ![w] = q]
    /\ Fits(alloc', held)
    /\ UNCHANGED <<held, wallets, rule>>

\* No more than was bought, and than is unassigned.
Assign(w, q) ==
    /\ \E a \in Amounts : q <= a
    /\ Allocate(w, alloc[w] + q)

Drop(w) ==
    /\ w \in wallets
    /\ wallets' = wallets \ {w}
    /\ alloc' = [alloc EXCEPT ![w] = 0]
    /\ rule' = IF rule = w THEN NoWallet ELSE rule
    /\ UNCHANGED held

SetRule(w) ==
    /\ rule' = w
    /\ UNCHANGED <<held, alloc, wallets>>

Next ==
    \/ ReadRule
    \/ /\ Forget
       /\ \/ LedgerWrite
          \/ \E w \in Wallets :
               \/ \E q \in 1..held : Allocate(w, q) \/ Assign(w, q)
               \/ Drop(w)
          \/ \E w \in wallets \cup {NoWallet} : SetRule(w)
          \/ UNCHANGED <<held, alloc, wallets, rule>>

Spec == Init /\ [][Next]_vars
=============================================================================
