---------------------------- MODULE MCSqlEngine -----------------------------
(* Instances of SqlEngine for TLC: columns 1 = "amount", 2 = "id" (the      *)
(* alphabetical order), values 0 = "", 1 and 2.                             *)
EXTENDS SqlEngine

MCColumns == {1, 2}
MCValues  == 0..2
MCWindows == { <<0, 1>>, <<1, 0>> }

Insert(row)        == [type |-> "INSERT", row |-> row]
Batch(batch)       == [type |-> "BATCH", batch |-> batch]
Update(row, conds) == [type |-> "UPDATE", row |-> row, conds |-> conds]
DeleteKeys(keys)   == [type |-> "DELETE", keys |-> keys, conds |-> {}]
DeleteWhere(conds) == [type |-> "DELETE", keys |-> <<>>, conds |-> conds]

Cond(key, op, value) == [key |-> key, op |-> op, value |-> value]

Amount(v)    == (1 :> v)
Item(id, v)  == (1 :> v) @@ (2 :> id)

MCStatements ==
    { Insert(Item(1, 1)), Insert(Amount(2)), Insert(<<>>),
      Batch(<<Item(1, 0), Item(2, 2), Item(1, 2)>>),
      Update(Amount(2), {}), Update(Item(0, 1), {Cond(2, "!=", 1)}),
      DeleteKeys(<<2, 1>>), DeleteWhere({Cond(1, "<=", 1)}) }
=============================================================================
