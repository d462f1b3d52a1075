----------------------------- MODULE MCBatches -----------------------------
(* The type and date rules and transformers of lr.validator, and of two      *)
(* networks of nn.validator what differs.                                    *)
EXTENDS Repairs

\* Values of dc:type: two of the driver vocabulary, one that is translated to
\* it, and the same of the status vocabulary.
MCDriver == {"article", "thesis"}
MCStatus == {"publishedVersion", "draft"}
MCToDriver == [artigo |-> "article"]
MCToStatus == [published |-> "publishedVersion"]
MCWellFormed == {"2013"}

MCFields == {"type", "date", "title", "rights", "type.driver"}
MCValidators ==
  [type |-> [mandatory |-> TRUE, rules |-> {DriverTypeRule, StatusTypeRule}],
   date |-> [mandatory |-> TRUE, rules |-> {DateRule}],
   title |-> [mandatory |-> TRUE,
              rules |-> {[accepts |-> {"title"}, quantifier |-> "1..*"]}],
   rights |-> [mandatory |-> FALSE,
               rules |-> {[accepts |-> {"openAccess"}, quantifier |-> "1..1"]}]]

MCOthers ==
  <<Translation("rights", {"openAccess"}, [open |-> "openAccess"], "openAccess",
                TRUE, TRUE)>>

TypeFieldName ==
  [kind |-> "FieldNameTranslate", field |-> "type", source |-> "type.driver",
   target |-> "type", applyIfValid |-> FALSE]
TypeCross ==
  [kind |-> "CrossTranslate", field |-> "type", test |-> "type.driver",
   map |-> [tesis |-> "thesis"], default |-> NoDefault, applyIfValid |-> FALSE]
\* One of a field that no validator checks.
Unchecked == [TypeFieldName EXCEPT !.field = "type.driver"]

Config(validation, transformers, published, indexing, xoai) ==
  [validation |-> validation, stats |-> TRUE, transformers |-> transformers,
   published |-> published, indexing |-> indexing, xoai |-> xoai]

MCConfigs ==
  {Config(TRUE, LRTransformer(FALSE), TRUE, TRUE, TRUE),
   Config(TRUE, LRTransformer(TRUE), FALSE, FALSE, FALSE),
   Config(FALSE, <<>>, FALSE, TRUE, TRUE),
   Config(FALSE, <<>>, TRUE, FALSE, FALSE), Config(FALSE, <<>>, TRUE, FALSE, TRUE),
   Config(TRUE, <<TypeFieldName, TypeCross, Unchecked>>, FALSE, FALSE, FALSE)}

Record(type, date, rights, driver) ==
  [f \in MCFields |-> CASE f = "type" -> type [] f = "date" -> date
                        [] f = "rights" -> rights [] f = "title" -> <<"title">>
                        [] OTHER -> driver]

\* The first run meets one record of every kind there is ...
MCVariety ==
  {Record(t, <<"soon", "2013">>, <<"open">>, <<>>) :
     t \in BoundedSeq({"article", "thesis", "artigo", "published"}, 2)}
  \union
  {Record(<<"artigo">>, <<"soon">>, <<"open">>, <<>>)}
  \union
  {Record(t, <<"2013">>, <<>>, <<v>>) :
     t \in {<<>>, <<"article", "publishedVersion">>}, v \in {"article", "tesis"}}
  \union
  {Record(t, <<"2013">>, <<>>, <<>>) :
     t \in {<<"article", "published", "publishedVersion">>,
            <<"article", "publishedVersion", "publishedVersion">>,
            <<"article", "published", "draft">>, <<"artigo", "artigo", "article">>}}

\* ... and the second two of a few, one with a fault that nothing repairs.
MCFew ==
  {[Record(<<"article", "publishedVersion">>, <<"2013">>, <<>>, <<>>)
      EXCEPT !.title = t] : t \in {<<"title">>, <<>>}}

MCHarvestable == <<MCVariety, MCFew>>
MCMaxRecords == <<1, 2>>

=============================================================================
