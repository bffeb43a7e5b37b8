------------------------------ MODULE DwtToken ------------------------------
(***************************************************************************)
(* The DWT token of the Starknet game.  One action is one transaction; a   *)
(* failing assertion, or an overflow of u256, is a step that is not        *)
(* enabled.  The owner is stored but never consulted: anyone may mint.     *)
(***************************************************************************)
EXTENDS Naturals, FiniteSetsExt

CONSTANTS
    Holders,        \* addresses
    MaxU256         \* largest u256

ASSUME DwtAssumption == IsFiniteSet(Holders) /\ MaxU256 \in Nat

Amount == 0 .. MaxU256

VARIABLES balances, allowances, totalSupply

\* History, read by properties only: amounts an address sent to itself.
VARIABLE selfSent

tokenStorage == <<balances, allowances, totalSupply>>
dwtVars == <<tokenStorage, selfSent>>

DwtInit ==
    /\ balances = [h \in Holders |-> 0]
    /\ allowances = [k \in Holders \X Holders |-> 0]
    /\ totalSupply = 0
    /\ selfSent = 0

-----------------------------------------------------------------------------
\* Mutant: the recipient is written before the sender, from the old balances.
MovedBackwards(from, to, n) ==
    [[balances EXCEPT ![to] = @ + n] EXCEPT ![from] = balances[from] - n]

\* Both balances are read first: the second write wins when they are the same.
Moved(from, to, n) ==
    [[balances EXCEPT ![from] = @ - n] EXCEPT ![to] = balances[to] + n]

Covered(from, to, n) == n <= balances[from] /\ balances[to] + n <= MaxU256

NoteSelf(from, to, n) == selfSent' = selfSent + IF from = to THEN n ELSE 0

\* The assertion after the writes refuses a transfer of nothing.
Transfer(from, to, n) ==
    /\ Covered(from, to, n) /\ n > 0
    /\ balances' = Moved(from, to, n)
    /\ NoteSelf(from, to, n)
    /\ UNCHANGED <<allowances, totalSupply>>

TransferFrom(spender, from, to, n) ==
    /\ n <= allowances[<<from, spender>>]
    /\ Covered(from, to, n)
    /\ allowances' = [allowances EXCEPT ![<<from, spender>>] = @ - n]
    /\ balances' = Moved(from, to, n)
    /\ NoteSelf(from, to, n)
    /\ UNCHANGED totalSupply

Approve(from, spender, n) ==
    /\ allowances' = [allowances EXCEPT ![<<from, spender>>] = n]
    /\ UNCHANGED <<balances, totalSupply, selfSent>>

Mint(to, n) ==
    /\ totalSupply + n <= MaxU256 /\ balances[to] + n <= MaxU256
    /\ totalSupply' = totalSupply + n
    /\ balances' = [balances EXCEPT ![to] = @ + n]
    /\ UNCHANGED <<allowances, selfSent>>

DwtNext == \E h, g \in Holders, n \in Amount :
    \/ Transfer(h, g, n) \/ Approve(h, g, n) \/ Mint(h, n)
    \/ \E s \in Holders : TransferFrom(s, h, g, n)

DwtSpec == DwtInit /\ [][DwtNext]_dwtVars

-----------------------------------------------------------------------------
DwtTypeOK ==
    /\ balances \in [Holders -> Amount]
    /\ allowances \in [Holders \X Holders -> Amount]
    /\ totalSupply \in Amount /\ selfSent \in Nat

\* Over mints, transfers and spent allowances the balances add up to the total
\* supply; what an address sends to itself comes on top, because both balances
\* are read before either is written.
SupplyAccountsForBalances ==
    MapThenSumSet(LAMBDA h : balances[h], Holders) = totalSupply + selfSent
=============================================================================
