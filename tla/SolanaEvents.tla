---------------------------- MODULE SolanaEvents ----------------------------
(***************************************************************************)
(* A Solana transaction from parsed instructions to canonical events: the  *)
(* decoder's dispatcher with its system and SPL token plugins, and the     *)
(* normalizer's buildCanonicalSolanaBalanceEventsMulti.                    *)
(*                                                                         *)
(* A transaction is [chain, payer, fee, status, ixs]; an instruction is    *)
(* [prog, kind, from, to, amount, inner], where from and to                *)
(* are the owners the SPL plugin resolves token accounts to and inner the  *)
(* instructions it called.                                                 *)
(***************************************************************************)
EXTENDS BalanceEvents

IsInstruction(ix) ==
  /\ ix.from \in Nat /\ ix.to \in Nat /\ ix.amount \in Nat
  /\ ix.prog = "system" => ix.kind = "transfer"
  /\ ix.prog = "spl" => ix.kind \in {"transfer", "mint", "burn"}
IsSolanaTx(tx) ==
  /\ tx.status \in {"SUCCESS", "FAILED"}
  /\ tx.payer \in Nat \ {NoAddr} /\ tx.fee \in Nat
  /\ IsList(tx.ixs)
  /\ \A o \in DOMAIN tx.ixs :
       /\ IsInstruction(tx.ixs[o]) /\ IsList(tx.ixs[o].inner)
       /\ \A n \in DOMAIN tx.ixs[o].inner : IsInstruction(tx.ixs[o].inner[n])

\* System program: both sides of a lamport transfer, without metadata.
systemEvents(ix, at) ==
  { Debit(NoPath, at, "SOL", "TRANSFER", ix.from, ix.to, ix.amount),
    Credit(NoPath, at, "SOL", "TRANSFER", ix.from, ix.to, ix.amount) }

\* SPL token program: a transfer to oneself reports the debit only; a mint
\* reports the recipient, a burn the owner.
splEvents(ix, at) ==
  CASE ix.kind = "transfer" ->
         {Debit(NoPath, at, "T", "TRANSFER", ix.from, ix.to, ix.amount)} \cup
         (IF ix.to = ix.from THEN {}
          ELSE {Credit(NoPath, at, "T", "TRANSFER", ix.from, ix.to, ix.amount)})
    [] ix.kind = "mint" -> {Credit(NoPath, at, "T", "MINT", ix.from, ix.to, ix.amount)}
    [] ix.kind = "burn" -> {Debit(NoPath, at, "T", "BURN", ix.from, ix.to, ix.amount)}
    [] OTHER -> {}

\* A plugin parses the instruction, or no plugin knows the program.
parse(ix, at) ==
  CASE ix.prog = "system" -> systemEvents(ix, at)
    [] ix.prog = "spl" -> splEvents(ix, at)
    [] OTHER -> {}

Claimed(ix) == ix.prog \in {"system", "spl"}

\* An outer instruction some plugin claims consumes its inner ones; of one
\* that none claims each inner instruction is tried by itself.
dispatch(tx) ==
  UNION { parse(tx.ixs[o], <<o - 1, -1>>) \cup
          (IF Claimed(tx.ixs[o]) THEN {}
           ELSE UNION { parse(tx.ixs[o].inner[n], <<o - 1, n - 1>>)
                        : n \in DOMAIN tx.ixs[o].inner })
          : o \in DOMAIN tx.ixs }

solanaFee(payer, fee) == Raw(NoPath, <<-1, -1>>, payer, "SOL", "FEE", -fee, NoAddr)

decodeSolanaTransaction(tx, watched) ==
  [status |-> tx.status, payer |-> tx.payer, fee |-> tx.fee,
   events |->
     IF tx.status = "FAILED" THEN {}
     ELSE { e \in dispatch(tx) : e.addr \in watched } \cup
          (IF tx.payer \in watched /\ tx.fee # 0 THEN {solanaFee(tx.payer, tx.fee)} ELSE {})]

-----------------------------------------------------------------------------
SolPath(e) == <<"ix", e.ix>>

\* An event of an inner instruction gives way to one of the same address,
\* asset and activity at its outer instruction.
CollapsedToOuter(events) ==
  { e \in events :
    \/ e.act = "FEE"
    \/ e.path[2][2] = -1
    \/ ~\E f \in events : /\ f.path = <<"ix", <<e.path[2][1], -1>>>>
                          /\ f.act = e.act /\ f.addr = e.addr /\ f.asset = e.asset }

\* The fee the decoder reported stays; it reports none for a failed one.
buildCanonicalSolanaBalanceEvents(result, watched) ==
  LET moves == BuildRaw(result.events, watched, TRUE, [e \in result.events |-> SolPath(e)])
      emitFee == /\ result.payer \in watched
                 /\ shouldEmitFee(result.status, result.payer, result.fee)
                 /\ ~\E e \in moves : e.act = "FEE" /\ e.addr = result.payer
  IN OnePerID(CollapsedToOuter(moves \cup
       (IF emitFee
        THEN {Event(<<"ix", <<-1, -1>>>>, result.payer, "SOL", "FEE", -result.fee)} ELSE {})))

\* The instructions of the two programs that ran, by their places <<outer, inner>>
\* (inner is 0 at the top level): those a transaction has itself, and those an
\* instruction of another program called.
Places(tx) ==
  UNION { IF Claimed(tx.ixs[o]) THEN {<<o, 0>>}
          ELSE {<<o, n>> : n \in {m \in DOMAIN tx.ixs[o].inner : Claimed(tx.ixs[o].inner[m])}}
          : o \in DOMAIN tx.ixs }
InstructionAt(tx, p) == IF p[2] = 0 THEN tx.ixs[p[1]] ELSE tx.ixs[p[1]].inner[p[2]]

\* What an instruction does to an address, and what the chain does to it: every
\* transfer, mint and burn the transaction performed, and the fee.
NetOf(ix, a, asset) ==
  IF asset # (IF ix.prog = "spl" THEN "T" ELSE "SOL") THEN 0
  ELSE (IF ix.to = a /\ ix.kind # "burn" THEN ix.amount ELSE 0)
       - (IF ix.from = a /\ ix.kind # "mint" THEN ix.amount ELSE 0)

SolEffect(tx, a, asset) ==
  (IF tx.status = "FAILED" THEN 0
   ELSE SumFunction([p \in Places(tx) |-> NetOf(InstructionAt(tx, p), a, asset)]))
  - (IF a = tx.payer /\ asset = "SOL" THEN tx.fee ELSE 0)
=============================================================================
