--------------------------- MODULE SchemaRevisions ---------------------------
(* The Alembic revisions of alembic/versions, each as the sequence of the    *)
(* operations its upgrade and its downgrade execute.  An operation carries    *)
(* the columns, parent tables and indexes it names; types, defaults and       *)
(* nullability are left out, but for the defaults SQLite may not parse.       *)
EXTENDS Integers, Sequences

CreateTable(t, cols, parents) ==
    [kind |-> "create", table |-> t, cols |-> cols, parents |-> parents]
\* A table with DEFAULT datetime('now'), which SQLite parses only in parentheses.
WithDefault(op) == [op EXCEPT !.kind = "default"]
DropTable(t)        == [kind |-> "drop", table |-> t]
DropIfExists(t)     == [kind |-> "dropif", table |-> t]
CreateIndexes(t, i) == [kind |-> "index", table |-> t, names |-> i]
DropIndexes(t, i)   == [kind |-> "unindex", table |-> t, names |-> i]
AddColumns(t, c)    == [kind |-> "add", table |-> t, cols |-> c]
DropColumn(t, c)    == [kind |-> "dropcol", table |-> t, cols |-> {c}]
CreateView(v, from) == [kind |-> "view", table |-> v, parents |-> from]
DropView(v)         == [kind |-> "unview", table |-> v]
\* batch_alter_table that alters or drops a column: the table is copied.
Recreate(t, add, drop, idx, unidx) ==
    [kind |-> "recreate", table |-> t, cols |-> add, gone |-> drop,
     names |-> idx, lost |-> unidx]
\* Guarded by what the inspector reports: create the table if it is not there,
\* else add the columns of "extra" it has not.
Ensure(t, cols, parents, idx, extra) ==
    [kind |-> "ensure", table |-> t, cols |-> cols, parents |-> parents,
     names |-> idx, extra |-> extra]

-----------------------------------------------------------------------------
(* 378a5aaa5bbd, the initial schema, in the order of its upgrade.            *)

\* The answer cache and the contextual flags.
CacheTables == <<
    CreateTable("ai_cache", {"hash", "result_json", "model_used", "backend_used",
        "hit_count", "created_at"}, {}),
    CreateIndexes("ai_cache", {"idx_cache_hash"}),
    CreateTable("ai_contextual_flags", {"flag_id", "sent_id", "seg_id", "panel_id",
        "speaker_name", "country", "power_level", "anomaly_type", "severity",
        "flag_category", "description", "ai_values", "formula_values", "detected_at"}, {}),
    CreateIndexes("ai_contextual_flags", {"idx_flags_cat", "idx_flags_country",
        "idx_flags_sent", "idx_flags_sev", "idx_flags_type"}) >>

\* Failed checks, their cache, patterns and log.
FailTables == <<
    CreateTable("ai_fail_analysis", {"fail_id", "sent_id", "seg_id", "panel_id",
        "speaker_name", "country", "power_level", "global_sent_order", "check_type",
        "formula_value", "ai_value", "discrepancy_score", "original_sentence",
        "triplet_text", "prev_sentence", "next_sentence", "prev_sent_id", "next_sent_id",
        "kgi_score", "risk_delta", "emotion_shift", "topic_shift",
        "formula_inconsistency_score", "ai_manipulation_score", "ai_hedging_score",
        "ai_risk_score", "ai_sentiment_score", "ai_tone", "ai_frame", "anomaly_types",
        "anomaly_count", "fail_reason", "negation_type", "negation_scope",
        "contextual_factor", "temporal_factor", "formula_gap", "ai_misperception",
        "correction_suggestion", "comparative_correction", "fail_category", "anomaly_link",
        "linguistic_marker", "confidence_score", "from_cache", "backend_used", "model_used",
        "processing_ms", "processed_at"}, {}),
    CreateIndexes("ai_fail_analysis", {"idx_fail_check", "idx_fail_country",
        "idx_fail_kategori", "idx_fail_panel", "idx_fail_sent"}),
    CreateTable("ai_fail_cache", {"hash", "result_json", "model_used", "backend_used",
        "hit_count", "created_at"}, {}),
    CreateIndexes("ai_fail_cache", {"idx_fcache_hash"}),
    CreateTable("ai_fail_patterns", {"pattern_id", "fail_category", "negation_type",
        "check_type", "speaker_name", "country", "power_level_avg", "avg_discrepancy",
        "avg_ai_confidence", "dominant_negation_type", "affected_panels", "example_sent_id",
        "example_sentence", "example_explanation", "recurrence_count", "first_seen_at",
        "last_seen_at"}, {}),
    CreateIndexes("ai_fail_patterns", {"idx_fail_pattern_chk", "idx_fail_pattern_kat"}),
    CreateTable("ai_validation_log", {"val_id", "sent_id", "seg_id", "panel_id",
        "speaker_name", "country", "check_type", "formula_value", "ai_value", "result",
        "discrepancy_score", "explanation", "context_note", "processed_at"}, {}),
    CreateIndexes("ai_validation_log", {"idx_val_result", "idx_val_sent", "idx_val_type"}) >>

\* Panels, speakers and country pairs.
PanelTables == <<
    CreateTable("country_pair_sentiment", {"from_country", "to_country", "total_mentions",
        "avg_sentiment", "interaction_count", "relationship_type", "affinity_score",
        "power_weighted_score", "diplomatic_distance"}, {}),
    CreateIndexes("country_pair_sentiment", {"idx_pair_from"}),
    CreateTable("panels", {"panel_id", "file_name", "panel_number", "title",
        "inferred_theme", "date_str", "file_format", "file_hash", "n_segments",
        "n_sentences", "n_speakers", "n_countries", "total_words", "total_duration_sec",
        "imported_at"}, {}),
    CreateTable("speakers", {"speaker_id", "full_name", "country", "title", "role", "bloc",
        "power_level", "influence_tier", "first_seen_panel", "n_panels", "n_segments",
        "n_sentences", "total_words", "total_duration_sec", "avg_sentiment",
        "dominant_emotion", "dominant_topic", "cooperative_pct", "confrontational_pct",
        "risk_event_count"}, {}),
    CreateTable("ai_fail_anomaly_cross", {"cross_id", "sent_id", "fail_id", "anomaly_type",
        "severity", "description", "detected_at"}, {"ai_fail_analysis"}),
    CreateIndexes("ai_fail_anomaly_cross", {"idx_fac_fail", "idx_fac_sent"}) >>

\* Syntheses, country statistics and network edges.
CountryTables == <<
    CreateTable("ai_panel_synthesis", {"synthesis_id", "panel_id", "panel_summary",
        "power_balance", "critical_moments", "outlook", "risk_map", "backend_used",
        "model_used", "processed_at"}, {"panels"}),
    CreateTable("country_stats", {"country", "panel_id", "n_segments", "n_sentences",
        "total_words", "total_duration_sec", "words_per_minute", "avg_sentiment",
        "dominant_emotion", "dominant_topic", "topic_scores"}, {"panels"}),
    CreateTable("discourse_network_edges", {"edge_id", "panel_id", "from_country",
        "to_country", "weight", "avg_sentiment", "edge_type", "power_source"}, {"panels"}),
    CreateIndexes("discourse_network_edges", {"idx_net_from"}) >>

\* Segments, speaker profiles and topics.
SegmentTables == <<
    CreateTable("segments", {"seg_id", "panel_id", "speaker_id", "speaker_name", "country",
        "bloc", "role", "power_level", "seq_order", "global_sent_start", "ts_start",
        "ts_end", "ts_start_sec", "ts_end_sec", "duration_sec", "text", "word_count",
        "sentence_count", "avg_word_len", "vader_pos", "vader_neg", "vader_neu",
        "vader_compound", "diplo_compound", "emotion_category", "key_phrases",
        "tfidf_keywords", "topic_scores", "dominant_topic", "entities_gpe", "entities_org",
        "entities_person", "risk_signals", "risk_score", "demand_count",
        "rhetoric_patterns", "risk_trend", "risk_trajectory", "intro_sentiment",
        "develop_sentiment", "concl_sentiment", "demand_concentration", "sbi_score",
        "dki_score", "formula_manip_score", "inconsistency_score", "avg_hedging_score",
        "avg_politeness_ratio", "dominant_frame", "dominant_audience", "dominant_evidence"},
        {"panels", "speakers"}),
    CreateIndexes("segments", {"idx_seg_country", "idx_seg_emotion", "idx_seg_panel",
        "idx_seg_topic"}),
    CreateTable("speaker_profiles", {"speaker_id", "full_name", "country", "title", "role",
        "bloc", "power_level", "influence_tier", "n_panels", "n_segments", "n_sentences",
        "total_words", "avg_sentiment", "dominant_emotion", "dominant_topic",
        "cooperative_pct", "constructive_pct", "neutral_pct", "concerned_pct",
        "confrontational_pct", "risk_event_count", "top_countries_mentioned", "top_topics",
        "ally_countries", "adversary_countries", "avg_sentence_length", "lexical_diversity",
        "diplo_vocab_score", "demand_count", "pattern_diversity", "avg_hedging_score",
        "avg_politeness_ratio", "avg_dki_score", "dominant_frame", "dominant_audience"},
        {"speakers"}),
    CreateTable("topic_matrix", {"panel_id", "country", "topic", "score"}, {"panels"}) >>

\* Segment insights, references and risks.
InsightTables == <<
    CreateTable("ai_segment_insights", {"insight_id", "seg_id", "panel_id", "speaker_name",
        "country", "power_level", "segment_summary", "strategy_analysis", "hidden_message",
        "power_dynamics", "impact_assessment", "consistency_score", "rhetoric_profile",
        "diplomatic_value", "sbi_analysis", "dki_analysis", "formula_inconsistency_score",
        "overall_logic_check", "fail_count", "pass_count", "logic_health_pct",
        "backend_used", "model_used", "processed_at"}, {"segments"}),
    CreateIndexes("ai_segment_insights", {"idx_seg_insight"}),
    CreateTable("country_references", {"ref_id", "panel_id", "seg_id", "from_country",
        "to_country", "mention_count", "sentiment_context", "context_snippet"}, {"panels",
        "segments"}),
    CreateIndexes("country_references", {"idx_coref_from", "idx_coref_to"}),
    CreateTable("risk_events", {"risk_id", "panel_id", "seg_id", "sent_id", "from_country",
        "speaker_name", "power_level", "signal_phrase", "target_country", "severity",
        "context"}, {"panels", "segments"}),
    CreateIndexes("risk_events", {"idx_risk_country"}) >>

\* Sentences and their analyses.
SentenceTables == <<
    CreateTable("sentences", {"sent_id", "seg_id", "panel_id", "speaker_id", "speaker_name",
        "country", "bloc", "role", "power_level", "sent_order", "global_sent_order", "text",
        "word_count", "char_count", "vader_compound", "diplo_compound", "emotion_category",
        "dominant_topic", "topic_scores", "risk_signals", "risk_score", "entities_gpe",
        "entities_person", "demand_type", "demand_weight", "demand_category",
        "rhetoric_type", "influence_tier", "negation_aware_diplo", "topic_specificity",
        "hedging_score", "politeness_ratio", "face_threat_count", "face_save_count",
        "dominant_frame", "evidence_types", "appraisal_attitude", "audience_type"},
        {"panels", "segments"}),
    CreateIndexes("sentences", {"idx_sent_audience", "idx_sent_country", "idx_sent_demand",
        "idx_sent_emotion", "idx_sent_frame", "idx_sent_panel", "idx_sent_rhetoric",
        "idx_sent_seg", "idx_sent_speaker", "idx_sent_topic"}),
    CreateTable("ai_sentence_analysis", {"ai_id", "sent_id", "seg_id", "panel_id",
        "speaker_name", "country", "power_level", "global_sent_order", "prev_sent_id",
        "next_sent_id", "triplet_text", "sentiment_score", "sentiment_category",
        "risk_score", "risk_level", "risk_description", "has_demand", "demand_type",
        "primary_topic", "secondary_topic", "diplomatic_tone", "intent_analysis",
        "manipulation_score", "has_inconsistency", "contextual_importance",
        "rhetorical_strategy", "target_audience", "subtext", "commentary", "hedging_score",
        "politeness_score", "framing", "evidence_type", "appraisal_attitude",
        "audience_type", "logic_check_sentiment", "logic_check_emotion", "logic_check_risk",
        "logic_check_demand", "logic_check_topic", "logic_check_hedging",
        "logic_check_frame", "logic_check_appraisal", "logic_check_audience",
        "logic_check_manipulation", "logic_check_politeness", "overall_logic_check",
        "logic_fail_reasons", "logic_pass_count", "logic_fail_count", "backend_used",
        "model_used", "from_cache", "processing_ms", "processed_at"}, {"sentences"}),
    CreateIndexes("ai_sentence_analysis", {"idx_ai_country", "idx_ai_logic", "idx_ai_panel",
        "idx_ai_risk", "idx_ai_sent_id", "idx_ai_tone"}) >>

\* Demands, panel dynamics and patterns.
DemandTables == <<
    CreateTable("demand_records", {"demand_id", "sent_id", "seg_id", "panel_id",
        "speaker_name", "country", "power_level", "demand_verb", "demand_type",
        "demand_weight", "demand_category", "target_entity", "demand_topic",
        "full_sentence", "diplo_compound"}, {"panels", "segments", "sentences"}),
    CreateIndexes("demand_records", {"idx_demand_country", "idx_demand_type"}),
    CreateTable("panel_dynamics", {"dyn_id", "panel_id", "position", "speaker_name",
        "country", "kgi_score", "risk_delta", "emotion_shift", "topic_shift",
        "inconsistency_score", "sent_id"}, {"panels", "sentences"}),
    CreateIndexes("panel_dynamics", {"idx_dyn_panel", "idx_dyn_sent"}),
    CreateTable("pattern_records", {"pattern_id", "sent_id", "seg_id", "panel_id",
        "speaker_name", "country", "power_level", "pattern_type", "pattern_text",
        "full_sentence", "dominant_topic", "diplo_compound"}, {"panels", "segments",
        "sentences"}),
    CreateIndexes("pattern_records", {"idx_pattern_country", "idx_pattern_type"}) >>

\* Words and demand analyses.
WordTables == <<
    CreateTable("words", {"word_id", "sent_id", "seg_id", "panel_id", "speaker_id",
        "speaker_name", "country", "bloc", "power_level", "word_raw", "word_norm",
        "word_position", "is_stopword", "diplo_score", "is_named_entity"}, {"panels",
        "segments", "sentences"}),
    CreateIndexes("words", {"idx_word_country", "idx_word_norm", "idx_word_seg",
        "idx_word_stopword"}),
    CreateTable("ai_demand_analysis", {"ai_demand_id", "demand_id", "sent_id", "seg_id",
        "panel_id", "speaker_name", "country", "power_level", "demand_verb", "demand_type",
        "demand_category", "future_risk", "risk_severity", "demand_subtext",
        "hidden_agenda", "potential_response", "escalation_path", "diplomatic_leverage",
        "future_demands", "strategic_value", "backend_used", "model_used", "processing_ms",
        "processed_at"}, {"demand_records", "sentences"}),
    CreateIndexes("ai_demand_analysis", {"idx_ai_demand_country", "idx_ai_demand_demand",
        "idx_ai_demand_sent"}) >>

InitialUp == CacheTables \o FailTables \o PanelTables \o CountryTables \o SegmentTables
    \o InsightTables \o SentenceTables \o DemandTables \o WordTables

InitialDown == <<
    DropIndexes("ai_demand_analysis", {"idx_ai_demand_sent", "idx_ai_demand_demand",
        "idx_ai_demand_country"}),
    DropTable("ai_demand_analysis"),
    DropIndexes("words", {"idx_word_stopword", "idx_word_seg", "idx_word_norm",
        "idx_word_country"}),
    DropTable("words"),
    DropIndexes("pattern_records", {"idx_pattern_type", "idx_pattern_country"}),
    DropTable("pattern_records"),
    DropIndexes("panel_dynamics", {"idx_dyn_sent", "idx_dyn_panel"}),
    DropTable("panel_dynamics"),
    DropIndexes("demand_records", {"idx_demand_type", "idx_demand_country"}),
    DropTable("demand_records"),
    DropIndexes("ai_sentence_analysis", {"idx_ai_tone", "idx_ai_sent_id", "idx_ai_risk",
        "idx_ai_panel", "idx_ai_logic", "idx_ai_country"}),
    DropTable("ai_sentence_analysis"),
    DropIndexes("sentences", {"idx_sent_topic", "idx_sent_speaker", "idx_sent_seg",
        "idx_sent_rhetoric", "idx_sent_panel", "idx_sent_frame", "idx_sent_emotion",
        "idx_sent_demand", "idx_sent_country", "idx_sent_audience"}),
    DropTable("sentences"),
    DropIndexes("risk_events", {"idx_risk_country"}),
    DropTable("risk_events"),
    DropIndexes("country_references", {"idx_coref_to", "idx_coref_from"}),
    DropTable("country_references"),
    DropIndexes("ai_segment_insights", {"idx_seg_insight"}),
    DropTable("ai_segment_insights"),
    DropTable("topic_matrix"),
    DropTable("speaker_profiles"),
    DropIndexes("segments", {"idx_seg_topic", "idx_seg_panel", "idx_seg_emotion",
        "idx_seg_country"}),
    DropTable("segments"),
    DropIndexes("discourse_network_edges", {"idx_net_from"}),
    DropTable("discourse_network_edges"),
    DropTable("country_stats"),
    DropTable("ai_panel_synthesis"),
    DropIndexes("ai_fail_anomaly_cross", {"idx_fac_sent", "idx_fac_fail"}),
    DropTable("ai_fail_anomaly_cross"),
    DropTable("speakers"),
    DropTable("panels"),
    DropIndexes("country_pair_sentiment", {"idx_pair_from"}),
    DropTable("country_pair_sentiment"),
    DropIndexes("ai_validation_log", {"idx_val_type", "idx_val_sent", "idx_val_result"}),
    DropTable("ai_validation_log"),
    DropIndexes("ai_fail_patterns", {"idx_fail_pattern_kat", "idx_fail_pattern_chk"}),
    DropTable("ai_fail_patterns"),
    DropIndexes("ai_fail_cache", {"idx_fcache_hash"}),
    DropTable("ai_fail_cache"),
    DropIndexes("ai_fail_analysis", {"idx_fail_sent", "idx_fail_panel", "idx_fail_kategori",
        "idx_fail_country", "idx_fail_check"}),
    DropTable("ai_fail_analysis"),
    DropIndexes("ai_contextual_flags", {"idx_flags_type", "idx_flags_sev", "idx_flags_sent",
        "idx_flags_country", "idx_flags_cat"}),
    DropTable("ai_contextual_flags"),
    DropIndexes("ai_cache", {"idx_cache_hash"}),
    DropTable("ai_cache") >>

-----------------------------------------------------------------------------
(* 002: the version of the prompt beside every AI answer.                    *)

PromptTables == <<"ai_sentence_analysis", "ai_segment_insights", "ai_demand_analysis",
    "ai_panel_synthesis", "ai_fail_analysis">>
PromptUp ==
    [i \in 1..5 |-> AddColumns(PromptTables[i], {"prompt_version"})]
    \o << CreateIndexes("ai_sentence_analysis", {"idx_ai_sent_prompt_ver"}) >>
\* Mutant: the downgrade forgets one of the tables.
PromptDownForgets ==
    << DropIndexes("ai_sentence_analysis", {"idx_ai_sent_prompt_ver"}) >>
    \o [i \in 1..4 |-> Recreate(PromptTables[i], {}, {"prompt_version"}, {}, {})]
PromptDown ==
    << DropIndexes("ai_sentence_analysis", {"idx_ai_sent_prompt_ver"}) >>
    \o [i \in 1..5 |-> Recreate(PromptTables[i], {}, {"prompt_version"}, {}, {})]

(* 7b0a258705f4: the views on the failed checks and what each reads.         *)

ViewsUp == <<
    CreateView("v_f_fail_negation_analysis", {"ai_fail_analysis"}),
    CreateView("v_f_fail_speaker_patterns", {"ai_fail_analysis"}),
    CreateView("v_f_fail_contextual_deep", {"ai_fail_analysis", "ai_sentence_analysis"}),
    CreateView("v_f_fail_formula_vs_ai", {"ai_fail_analysis"}),
    CreateView("v_f_fail_correction_suggestions", {"ai_fail_analysis"}),
    CreateView("v_f_fail_temporal_analysis", {"ai_fail_analysis"}),
    CreateView("v_f_fail_ai_cross_reference", {"ai_fail_analysis", "ai_sentence_analysis"}),
    CreateView("v_f_fail_anomaly_bridge", {"ai_fail_analysis", "ai_contextual_flags"}),
    CreateView("v_f_fail_network_context", {"ai_fail_analysis", "sentences",
        "discourse_network_edges", "country_pair_sentiment"}) >>
ViewsDown == [i \in 1..9 |-> DropView(ViewsUp[i].table)]

-----------------------------------------------------------------------------
(* 050ff3fd782c (Entities), 20260512 (Quality), faz4_network_dyadic_2026      *)
(* (Dyadic) and 1ef902da8b4f (Topics).                                       *)

EntityTables == <<
    CreateTable("legacy_country_references", {"ref_id", "panel_id", "seg_id",
        "from_country", "to_country", "mention_count", "sentiment_context",
        "context_snippet"}, {"panels", "segments"}),
    CreateIndexes("legacy_country_references", {"idx_legacy_coref_from",
        "idx_legacy_coref_to"}),
    CreateTable("bilateral_sentiments", {"id", "panel_id", "from_country", "to_country",
        "total_mentions", "avg_sentiment", "interaction_count", "relationship_type",
        "affinity_score", "power_weighted_score", "diplomatic_distance", "last_updated"},
        {}),
    CreateIndexes("bilateral_sentiments", {"ix_bs_panel_pair"}),
    CreateTable("country_references", {"id", "panel_id", "speaker_country",
        "referenced_country", "sentence_index", "reference_context", "raw_sentiment_score",
        "speaker_power_level", "created_at"}, {}),
    CreateIndexes("country_references", {"ix_cr_panel_id", "ix_cr_speaker_referenced"}),
    CreateTable("discourse_flows", {"id", "panel_id", "from_country", "to_country",
        "edge_type", "weight", "sentiment_toward", "confrontational_count",
        "cooperative_count"}, {}),
    CreateIndexes("discourse_flows", {"ix_df_from_to", "ix_df_panel_id"}),
    CreateTable("topic_matrices", {"id", "panel_id", "country", "topic_scores",
        "dominant_topic"}, {}),
    CreateIndexes("topic_matrices", {"ix_tm_panel_country"}),
    DropTable("_alembic_tmp_ai_demand_analysis") >>

EntityColumns == <<
    Recreate("ai_demand_analysis", {}, {}, {}, {}),
    AddColumns("ai_segment_insights", {"ai_insight", "ai_insight_version",
        "insight_generated_at"}),
    Recreate("ai_sentence_analysis", {"backend", "model_name", "ai_sentiment", "ai_emotion",
        "ai_risk_score", "ai_risk_level", "ai_demand_type", "ai_topic", "ai_hedging_score",
        "ai_frame_type", "ai_manipulation_score", "ai_politeness_score", "ai_evidence_type",
        "logic_result", "validation_flags", "raw_response", "tokens_used", "latency_ms",
        "anomaly_types", "anomaly_severity", "created_at"}, {}, {},
        {"idx_ai_sent_prompt_ver"}),
    Recreate("country_pair_sentiment", {}, {}, {}, {}),
    Recreate("demand_records", {}, {}, {}, {}),
    Recreate("panels", {}, {"replaced_by_panel_id", "is_active"}, {}, {}),
    Recreate("sentences", {"start_time", "end_time", "duration", "ai_analyzed",
        "logic_result"}, {}, {}, {}) >>

EntitiesUp == EntityTables \o EntityColumns

EntityColumnsDown == <<
    Recreate("sentences", {}, {"logic_result", "ai_analyzed", "duration", "end_time",
        "start_time"}, {}, {}),
    AddColumns("panels", {"is_active", "replaced_by_panel_id"}),
    Recreate("demand_records", {}, {}, {}, {}),
    Recreate("country_pair_sentiment", {}, {}, {}, {}),
    Recreate("ai_sentence_analysis", {}, {"created_at", "anomaly_severity", "anomaly_types",
        "latency_ms", "tokens_used", "raw_response", "validation_flags", "logic_result",
        "ai_evidence_type", "ai_politeness_score", "ai_manipulation_score", "ai_frame_type",
        "ai_hedging_score", "ai_topic", "ai_demand_type", "ai_risk_level", "ai_risk_score",
        "ai_emotion", "ai_sentiment", "model_name", "backend"}, {"idx_ai_sent_prompt_ver"},
        {}),
    Recreate("ai_segment_insights", {}, {"insight_generated_at", "ai_insight_version",
        "ai_insight"}, {}, {}),
    Recreate("ai_demand_analysis", {}, {}, {}, {}) >>

EntityTablesDown == <<
    CreateTable("_alembic_tmp_ai_demand_analysis", {"ai_demand_id", "demand_id", "sent_id",
        "seg_id", "panel_id", "speaker_name", "country", "power_level", "demand_verb",
        "demand_type", "demand_category", "future_risk", "risk_severity", "demand_subtext",
        "hidden_agenda", "potential_response", "escalation_path", "diplomatic_leverage",
        "future_demands", "strategic_value", "backend_used", "model_used", "processing_ms",
        "processed_at", "prompt_version"}, {"demand_records", "sentences"}),
    DropIndexes("topic_matrices", {"ix_tm_panel_country"}),
    DropTable("topic_matrices"),
    DropIndexes("discourse_flows", {"ix_df_panel_id", "ix_df_from_to"}),
    DropTable("discourse_flows"),
    DropIndexes("country_references", {"ix_cr_speaker_referenced", "ix_cr_panel_id"}),
    DropTable("country_references"),
    DropIndexes("bilateral_sentiments", {"ix_bs_panel_pair"}),
    DropTable("bilateral_sentiments"),
    DropIndexes("legacy_country_references", {"idx_legacy_coref_to",
        "idx_legacy_coref_from"}),
    DropTable("legacy_country_references") >>

EntitiesDown == EntityColumnsDown \o EntityTablesDown

QualityUp == <<
    WithDefault(CreateTable("processed_files", {"file_hash", "file_name", "file_size_bytes",
        "idempotency_key", "parser_version", "speaker_map_version", "first_processed_at",
        "last_processed_at", "reprocess_count", "force_rebuild"}, {})),
    WithDefault(CreateTable("ai_human_review_queue", {"review_id", "sent_id", "seg_id",
        "panel_id", "speaker_name", "country", "trigger_type", "ai_risk_score",
        "anomaly_types", "uncertainty_score", "status", "assigned_to", "reviewer_notes",
        "original_ai_json", "corrected_json", "flagged_at", "reviewed_at",
        "review_duration_sec"}, {})),
    CreateIndexes("ai_human_review_queue", {"idx_review_status"}),
    CreateIndexes("ai_human_review_queue", {"idx_review_panel"}),
    CreateTable("drift_events", {"id", "speaker_id", "panel_id", "drift_type",
        "start_position", "end_position", "severity", "before_state", "after_state",
        "confidence", "algorithm"}, {}),
    AddColumns("panels", {"is_active"}),
    AddColumns("panels", {"replaced_by_panel_id"}) >>

QualityDown == <<
    DropColumn("panels", "replaced_by_panel_id"),
    DropColumn("panels", "is_active"),
    DropTable("drift_events"),
    DropIndexes("ai_human_review_queue", {"idx_review_panel"}),
    DropIndexes("ai_human_review_queue", {"idx_review_status"}),
    DropTable("ai_human_review_queue"),
    DropTable("processed_files") >>

DyadicUp == <<
    DropIfExists("discourse_network_edges"),
    CreateTable("discourse_network_edges", {"id", "session_id", "actor_id", "concept_id",
        "tf", "idf", "weight", "segment_id", "panel_id"}, {"panels"}),
    CreateIndexes("discourse_network_edges", {"ix_net_session"}),
    CreateIndexes("discourse_network_edges", {"ix_net_weight"}),
    CreateIndexes("discourse_network_edges", {"ix_net_actor"}),
    AddColumns("bilateral_sentiments", {"vote_affinity", "alliance_score",
        "structural_distance", "discourse_sentiment_delta", "maoz_diplomatic_distance",
        "maoz_affinity_score"}) >>

DyadicDown == <<
    DropTable("discourse_network_edges"),
    Recreate("bilateral_sentiments", {}, {"vote_affinity", "alliance_score",
        "structural_distance", "discourse_sentiment_delta", "maoz_diplomatic_distance",
        "maoz_affinity_score"}, {}, {}) >>

TopicsUp == <<
    Ensure("topic_assignments", {"id", "segment_id", "analysis_id", "primary_topic",
        "topic_scores", "topic_label", "ctfidf_keywords", "model_metadata"}, {},
        {"ix_topic_assignments_analysis_id", "ix_topic_assignments_segment_id"}, {}),
    Ensure("transcripts", {"id", "speaker_name", "country_code", "raw_text", "timestamp",
        "vader_compound", "power_level", "metadata_json"}, {}, {}, {}),
    Ensure("analytics", {"id", "transcript_id", "sbi_score", "dki_score",
        "hedging_markers", "framing_labels", "raw_ai_output", "topic_scores",
        "topic_node_mapping"}, {"transcripts"}, {}, {"topic_scores", "topic_node_mapping"}) >>

TopicsDown == <<
    Recreate("analytics", {}, {"topic_node_mapping", "topic_scores"}, {}, {}),
    DropIndexes("topic_assignments", {"ix_topic_assignments_segment_id"}),
    DropIndexes("topic_assignments", {"ix_topic_assignments_analysis_id"}),
    DropTable("topic_assignments") >>

-----------------------------------------------------------------------------
(* The revision graph.                                                       *)

\* Every revision after those it revises.
RevisionOrder == <<"378a5aaa5bbd", "002", "7b0a258705f4", "20260512", "9652d437d1c3",
    "050ff3fd782c", "faz4_network_dyadic_2026", "1ef902da8b4f">>
Revisions == {RevisionOrder[i] : i \in DOMAIN RevisionOrder}

\* The down_revision of each revision.
DownRevisions(r) ==
    CASE r = "378a5aaa5bbd" -> {}
      [] r = "002" -> {"378a5aaa5bbd"}
      [] r = "7b0a258705f4" -> {"002"}
      [] r = "20260512" -> {}
      [] r = "9652d437d1c3" -> {"20260512", "7b0a258705f4"}
      [] r = "050ff3fd782c" -> {"9652d437d1c3"}
      [] r = "faz4_network_dyadic_2026" -> {"050ff3fd782c"}
      [] r = "1ef902da8b4f" -> {"faz4_network_dyadic_2026"}

Upgrade(r) ==
    CASE r = "378a5aaa5bbd" -> InitialUp
      [] r = "002" -> PromptUp
      [] r = "7b0a258705f4" -> ViewsUp
      [] r = "20260512" -> QualityUp
      [] r = "9652d437d1c3" -> << >>
      [] r = "050ff3fd782c" -> EntitiesUp
      [] r = "faz4_network_dyadic_2026" -> DyadicUp
      [] r = "1ef902da8b4f" -> TopicsUp

Downgrade(r) ==
    CASE r = "378a5aaa5bbd" -> InitialDown
      [] r = "002" -> PromptDown
      [] r = "7b0a258705f4" -> ViewsDown
      [] r = "20260512" -> QualityDown
      [] r = "9652d437d1c3" -> << >>
      [] r = "050ff3fd782c" -> EntitiesDown
      [] r = "faz4_network_dyadic_2026" -> DyadicDown
      [] r = "1ef902da8b4f" -> TopicsDown
=============================================================================
