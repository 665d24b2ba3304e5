----------------------------- MODULE BondEscrow -----------------------------
(***************************************************************************)
(* What the program promises about other people's money, and nothing else: *)
(* a slot takes one bond, once; while it holds the bond the slot's balance *)
(* covers what is still owed; the bond then goes back to its owner whole   *)
(* or is forfeited to the treasury, and the slot is closed for good.       *)
(* Penalties may cut the bond before, and anybody may add lamports to any  *)
(* account at any time.                                                    *)
(***************************************************************************)
EXTENDS Integers

CONSTANTS Wallets, Slots, Rent, None

VARIABLES
    lamports,   \* the balance of every wallet and slot
    treasury,   \* the wallet forfeits are paid to, None before it is named
    bonds       \* the bond of every slot

escrowVars == <<lamports, treasury, bonds>>

Unused == [phase |-> "unused", owner |-> None, owed |-> 0]
Closed == [phase |-> "closed", owner |-> None, owed |-> 0]
Held(owner, owed) == [phase |-> "held", owner |-> owner, owed |-> owed]
Bond ==
    {Unused, Closed} \cup [phase : {"held"}, owner : Wallets, owed : Nat]
IsHeld(s) == bonds[s].phase = "held"

Init ==
    /\ lamports \in [Wallets \cup Slots -> Nat]
    /\ \A s \in Slots : lamports[s] = 0
    /\ treasury = None
    /\ bonds = [s \in Slots |-> Unused]

Pay(from, to, amount) ==
    /\ amount \in 0 .. lamports[from]
    /\ lamports' = [lamports EXCEPT ![from] = @ - amount, ![to] = @ + amount]

NameTreasury(payer, wallet) ==
    /\ treasury = None
    /\ Pay(payer, wallet, Rent)
    /\ treasury' = wallet
    /\ UNCHANGED bonds

\* Taking a bond in one slot may retire slots that were never used.
Deposit(owner, s, amount) ==
    /\ treasury # None
    /\ bonds[s] = Unused
    /\ amount >= Rent
    /\ Pay(owner, s, amount)
    /\ bonds' \in [Slots -> Bond]
    /\ bonds'[s] = Held(owner, amount)
    /\ \A other \in Slots \ {s} :
           \/ bonds'[other] = bonds[other]
           \/ bonds[other] = Unused /\ bonds'[other] = Closed
    /\ UNCHANGED treasury

Penalize(s, amount) ==
    /\ IsHeld(s)
    /\ 0 < amount /\ amount + Rent <= bonds[s].owed
    /\ Pay(s, treasury, amount)
    /\ bonds' = [bonds EXCEPT ![s].owed = @ - amount]
    /\ UNCHANGED treasury

Settle(s, to) ==
    /\ IsHeld(s)
    /\ lamports[s] >= bonds[s].owed
    /\ to \in {bonds[s].owner, treasury}
    /\ Pay(s, to, lamports[s])
    /\ bonds' = [bonds EXCEPT ![s] = Closed]
    /\ UNCHANGED treasury

Transfer(from, to, amount) ==
    /\ Pay(from, to, amount)
    /\ UNCHANGED <<treasury, bonds>>

Next ==
    \/ \E payer, wallet \in Wallets : NameTreasury(payer, wallet)
    \/ \E owner \in Wallets, s \in Slots :
           \E amount \in 1 .. lamports[owner] : Deposit(owner, s, amount)
    \/ \E s \in Slots : \E amount \in 1 .. bonds[s].owed : Penalize(s, amount)
    \/ \E s \in Slots, to \in Wallets : Settle(s, to)
    \/ \E from \in Wallets, to \in Wallets \cup Slots :
           \E amount \in 0 .. lamports[from] : Transfer(from, to, amount)

Spec == Init /\ [][Next]_escrowVars

\* While a slot holds a bond its balance covers what is owed for it.
Solvent == \A s \in Slots : IsHeld(s) => lamports[s] >= bonds[s].owed
=============================================================================
