------------------------------- MODULE MCCodec ------------------------------
(***************************************************************************)
(* Snapshots to encode, with every kind of value and of column.            *)
(***************************************************************************)
EXTENDS Codec

Column(name, type, default, nullable, key) ==
  [name |-> name, column_type |-> type, default_value |-> default, nullable |-> nullable,
   primary_key |-> key, auto_increment |-> key]

Columns == { Column(<<1>>, <<"integer">>, NoDefault, FALSE, TRUE),
             Column(<<2, 0>>, <<"text">>, <<"text", <<1, 0>>>>, TRUE, FALSE),
             Column(<<3>>, <<"vector", 2>>, <<"null">>, TRUE, FALSE),
             Column(<<4>>, <<"boolean">>, <<"boolean", FALSE>>, FALSE, FALSE) }

IndexLists == { <<>>, <<[primary |-> TRUE, name |-> <<0>>, columns |-> <<<<1>>, <<2, 0>>>>]>>,
                <<[primary |-> FALSE, name |-> <<1, 1>>, columns |-> <<<<2, 0>>>>]>> }

Row(id, values) == [id |-> id, values |-> values]

RowLists == { <<>>,
              <<Row(1, <<<<"null">>, <<"integer", 0>>, <<"float", 1>>>>)>>,
              <<Row(3, <<<<"vector", <<0, 1>>>>>>),
                Row(2, <<<<"text", <<>>>>, <<"boolean", TRUE>>, <<"blob", <<1>>>>>>)>> }

TableSet == [name : {<<>>, <<1, 1>>}, columns : {<<c>> : c \in Columns} \cup (Columns \X Columns),
             indexes : IndexLists, next_id : {4}, rows : RowLists]

Objects == {<<>>, <<[name |-> <<0>>, body |-> <<1>>]>>,
            <<[name |-> <<1>>, body |-> <<>>], [name |-> <<0, 0>>, body |-> <<0, 1>>]>>}

Few == {t \in TableSet : Len(t.columns) = 1 /\ t.name = <<>>}

(* One small table with all objects, a larger one, and two. *)
Databases ==
  {[tables |-> ts, views |-> v, procedures |-> p] :
     ts \in {<<>>} \cup {<<t>> : t \in Few}, v \in Objects, p \in Objects}
    \cup {[tables |-> <<t>>, views |-> <<>>, procedures |-> p] : t \in TableSet, p \in Objects}
    \cup {[tables |-> <<t, u>>, views |-> <<>>, procedures |-> <<>>] :
            t \in Few, u \in {w \in Few : w.indexes # <<>> /\ w.rows # <<>>}}

CodecInputs == {[of |-> "snapshot", snapshot |-> s] : s \in Databases}
=============================================================================
