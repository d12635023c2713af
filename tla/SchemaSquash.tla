-------------------- MODULE SchemaSquash --------------------
(***************************************************************************)
(* The tables as the squashed migration creates them, in the place of 0001 *)
(* to 0006, and the migration that comes after either.                     *)
(***************************************************************************)
EXTENDS Fields

CONSTANT AUTH_USER_MODEL  \* the table of the project's users

\* The columns every CreateModel repeats.
Base ==
  [id |-> Unique(Uuid), created_at |-> Indexed(Time), updated_at |-> Time]

\* The columns the CreateModels of the rules repeat.
Rule ==
  Base ++
  [index_name |-> Indexed(Char(200)), tenant_id |-> Indexed(Char(200)),
   query_pattern |-> Char(500), match_type |-> Char(20),
   is_active |-> Indexed(Boolean), priority |-> Indexed(Integer),
   starts_at |-> Nullable(Time), ends_at |-> Nullable(Time),
   hit_count |-> Positive]

SearchIndex ==
  TableWith(Base ++
  [name |-> Indexed(Char(100)), tenant_id |-> Indexed(Char(100)),
   engine_uid |-> Unique(Char(255)), primary_key_field |-> Char(100),
   settings |-> Json, document_count |-> Positive, is_synced |-> Boolean,
   last_synced_at |-> Nullable(Time), is_active |-> Indexed(Boolean)],
  [unique_together |-> <<"tenant_id", "name">>],
  None)

IndexSyncLog ==
  Table(Base ++
  [action |-> Char(50), status |-> Char(20), detail |-> Text,
   task_uid |-> Char(100), completed_at |-> Nullable(Time),
   index |-> Ref("SearchIndex")])

SearchQueryLog ==
  TableWith(Base ++
  [index_name |-> Indexed(Char(200)), query |-> Char(500), filters |-> Json,
   sort |-> Json, hit_count |-> Integer, processing_time_ms |-> Integer,
   tenant_id |-> Indexed(Char(200)), is_zero_result |-> Indexed(Boolean),
   metadata |-> Json, user |-> Nullable(Ref(AUTH_USER_MODEL))],
  None,
  [icv_search__index_n_08e7ef_idx |-> <<"index_name", "is_zero_result">>,
   icv_search__index_n_09bc9e_idx |-> <<"index_name", "tenant_id", "created_at">>])

SearchQueryAggregate ==
  TableWith(Base ++
  [index_name |-> Indexed(Char(200)), query |-> Char(500),
   date |-> Indexed(Date), tenant_id |-> Indexed(Char(200)),
   total_count |-> Positive, zero_result_count |-> Positive,
   total_processing_time_ms |-> PositiveBig],
  [icv_search_agg_unique |-> <<"index_name", "query", "date", "tenant_id">>],
  [icv_srch_agg_idx_dt |-> <<"index_name", "date">>,
   icv_srch_agg_tnt_dt |-> <<"index_name", "tenant_id", "date">>])

BoostRule ==
  Table(Rule ++
  [field |-> Char(200), field_value |-> Char(500), operator |-> Char(20),
   boost_weight |-> Decimal(6, 3)])

QueryRedirect ==
  Table(Rule ++
  [destination_url |-> Char(2000), destination_type |-> Char(20),
   preserve_query |-> Boolean, http_status |-> Integer])

QueryRewrite ==
  Table(Rule ++
  [rewritten_query |-> Char(500), apply_filters |-> Json,
   apply_sort |-> Json, merge_filters |-> Boolean])

SearchBanner ==
  Table(Rule ++
  [title |-> Char(200), content |-> Text, image_url |-> Char(2000),
   link_url |-> Char(2000), link_text |-> Char(200), position |-> Char(20),
   banner_type |-> Char(20), metadata |-> Json])

SearchPin ==
  Table(Rule ++
  [document_id |-> Char(255), position |-> Integer, label |-> Char(200)])

ZeroResultFallback ==
  Table(Rule ++
  [fallback_type |-> Char(30), fallback_value |-> Char(2000),
   fallback_filters |-> Json, max_retries |-> Positive])

SearchClick ==
  TableWith(Base ++
  [index_name |-> Indexed(Char(200)), query |-> Char(500),
   document_id |-> Indexed(Char(500)), position |-> PositiveSmall,
   tenant_id |-> Indexed(Char(200)), metadata |-> Json],
  None,
  [icv_srch_clk_qry_dt |-> <<"index_name", "query", "created_at">>,
   icv_srch_clk_doc |-> <<"index_name", "document_id">>])

SearchClickAggregate ==
  TableWith(Base ++
  [index_name |-> Indexed(Char(200)), query |-> Char(500),
   document_id |-> Indexed(Char(500)), date |-> Indexed(Date),
   click_count |-> Positive, tenant_id |-> Indexed(Char(200))],
  [icv_search_click_agg_unique |-> <<"index_name", "query", "document_id", "date", "tenant_id">>],
  [icv_srch_clkagg_qry_dt |-> <<"index_name", "query", "date">>,
   icv_srch_clkagg_tnt_dt |-> <<"index_name", "date", "tenant_id">>])

-----------------------------------------------------------------------------

\* The migrations it replaces.
Replaces == {"0001", "0002", "0003", "0004", "0005", "0006"}

Squashed(db) ==
  LET created == CreateModels(db,
        [SearchIndex |-> SearchIndex, IndexSyncLog |-> IndexSyncLog,
         SearchQueryLog |-> SearchQueryLog, SearchQueryAggregate |-> SearchQueryAggregate,
         BoostRule |-> BoostRule, QueryRedirect |-> QueryRedirect,
         QueryRewrite |-> QueryRewrite, SearchBanner |-> SearchBanner,
         SearchPin |-> SearchPin, ZeroResultFallback |-> ZeroResultFallback])
      pinned  == AddConstraint(created, "SearchPin", "icv_search_pin_unique",
                   <<"index_name", "tenant_id", "query_pattern", "document_id">>)
      clicks  == CreateModels(pinned, [SearchClick |-> SearchClick,
                                       SearchClickAggregate |-> SearchClickAggregate])
  IN  AlterField(clicks, "SearchIndex", "settings", Json)

Migration0007(db) ==
  AlterField(AlterField(db, "SearchClick", "tenant_id", Indexed(Char(200))),
             "SearchQueryLog", "tenant_id", Indexed(Char(200)))

=============================================================================
