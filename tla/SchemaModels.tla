---------------------------- MODULE SchemaModels ----------------------------
(* The columns the SQLAlchemy classes of infrastructure/db and                *)
(* infrastructure/persistence map.                                           *)

Panel == {"panel_id", "file_name", "panel_number", "title", "inferred_theme", "date_str",
    "file_format", "file_hash", "n_segments", "n_sentences", "n_speakers", "n_countries",
    "total_words", "total_duration_sec", "imported_at"}
Speaker == {"speaker_id", "full_name", "country", "title", "role", "bloc", "power_level",
    "influence_tier", "first_seen_panel", "n_panels", "n_segments", "n_sentences",
    "total_words", "total_duration_sec", "avg_sentiment", "dominant_emotion",
    "dominant_topic", "cooperative_pct", "confrontational_pct", "risk_event_count"}
SpeakerProfile == {"speaker_id", "full_name", "country", "title", "role", "bloc",
    "power_level", "influence_tier", "n_panels", "n_segments", "n_sentences", "total_words",
    "avg_sentiment", "dominant_emotion", "dominant_topic", "cooperative_pct",
    "constructive_pct", "neutral_pct", "concerned_pct", "confrontational_pct",
    "risk_event_count", "top_countries_mentioned", "top_topics", "ally_countries",
    "adversary_countries", "avg_sentence_length", "lexical_diversity", "diplo_vocab_score",
    "demand_count", "pattern_diversity", "avg_hedging_score", "avg_politeness_ratio",
    "avg_dki_score", "dominant_frame", "dominant_audience"}
Segment == {"seg_id", "panel_id", "speaker_id", "speaker_name", "country", "bloc", "role",
    "power_level", "seq_order", "global_sent_start", "ts_start", "ts_end", "ts_start_sec",
    "ts_end_sec", "duration_sec", "text", "word_count", "sentence_count", "avg_word_len",
    "vader_pos", "vader_neg", "vader_neu", "vader_compound", "diplo_compound",
    "emotion_category", "key_phrases", "tfidf_keywords", "topic_scores", "dominant_topic",
    "entities_gpe", "entities_org", "entities_person", "risk_signals", "risk_score",
    "demand_count", "rhetoric_patterns", "risk_trend", "risk_trajectory", "intro_sentiment",
    "develop_sentiment", "concl_sentiment", "demand_concentration", "sbi_score",
    "dki_score", "formula_manip_score", "inconsistency_score", "avg_hedging_score",
    "avg_politeness_ratio", "dominant_frame", "dominant_audience", "dominant_evidence"}
Sentence == {"sent_id", "seg_id", "panel_id", "speaker_id", "speaker_name", "country",
    "bloc", "role", "power_level", "sent_order", "global_sent_order", "start_time",
    "end_time", "duration", "text", "word_count", "char_count", "vader_compound",
    "diplo_compound", "emotion_category", "dominant_topic", "topic_scores", "risk_signals",
    "risk_score", "entities_gpe", "entities_person", "demand_type", "demand_weight",
    "demand_category", "rhetoric_type", "influence_tier", "negation_aware_diplo",
    "topic_specificity", "hedging_score", "politeness_ratio", "face_threat_count",
    "face_save_count", "dominant_frame", "evidence_types", "appraisal_attitude",
    "audience_type", "ai_analyzed", "logic_result"}
Word == {"word_id", "sent_id", "seg_id", "panel_id", "speaker_id", "speaker_name",
    "country", "bloc", "power_level", "word_raw", "word_norm", "word_position",
    "is_stopword", "diplo_score", "is_named_entity"}
CountryReference == {"ref_id", "panel_id", "seg_id", "from_country", "to_country",
    "mention_count", "sentiment_context", "context_snippet"}
CountryStat == {"country", "panel_id", "n_segments", "n_sentences", "total_words",
    "total_duration_sec", "words_per_minute", "avg_sentiment", "dominant_emotion",
    "dominant_topic", "topic_scores"}
TopicMatrix == {"panel_id", "country", "topic", "score"}
CountryPairSentiment == {"from_country", "to_country", "total_mentions", "avg_sentiment",
    "interaction_count", "relationship_type", "affinity_score", "power_weighted_score",
    "diplomatic_distance"}
DemandRecord == {"demand_id", "sent_id", "seg_id", "panel_id", "speaker_name", "country",
    "power_level", "demand_verb", "demand_type", "demand_weight", "demand_category",
    "target_entity", "demand_topic", "full_sentence", "diplo_compound"}
PatternRecord == {"pattern_id", "sent_id", "seg_id", "panel_id", "speaker_name", "country",
    "power_level", "pattern_type", "pattern_text", "full_sentence", "dominant_topic",
    "diplo_compound"}
PanelDynamics == {"dyn_id", "panel_id", "position", "speaker_name", "country", "kgi_score",
    "risk_delta", "emotion_shift", "topic_shift", "inconsistency_score", "sent_id"}
DiscourseNetworkEdge == {"edge_id", "panel_id", "from_country", "to_country", "weight",
    "avg_sentiment", "edge_type", "power_source"}
DiscourseNetworkEdgeTable == {"id", "session_id", "actor_id", "concept_id", "tf", "idf",
    "weight", "segment_id", "panel_id"}
AISentenceAnalysis == {"ai_id", "sent_id", "prompt_version", "seg_id", "panel_id",
    "speaker_name", "country", "power_level", "global_sent_order", "prev_sent_id",
    "next_sent_id", "triplet_text", "sentiment_score", "sentiment_category", "risk_score",
    "risk_level", "risk_description", "has_demand", "demand_type", "primary_topic",
    "secondary_topic", "diplomatic_tone", "intent_analysis", "manipulation_score",
    "has_inconsistency", "contextual_importance", "rhetorical_strategy", "target_audience",
    "subtext", "commentary", "hedging_score", "politeness_score", "framing",
    "evidence_type", "appraisal_attitude", "audience_type", "logic_check_sentiment",
    "logic_check_emotion", "logic_check_risk", "logic_check_demand", "logic_check_topic",
    "logic_check_hedging", "logic_check_frame", "logic_check_appraisal",
    "logic_check_audience", "logic_check_manipulation", "logic_check_politeness",
    "overall_logic_check", "logic_fail_reasons", "logic_pass_count", "logic_fail_count",
    "backend", "model_name", "ai_sentiment", "ai_emotion", "ai_risk_score", "ai_risk_level",
    "ai_demand_type", "ai_topic", "ai_hedging_score", "ai_frame_type",
    "ai_manipulation_score", "ai_politeness_score", "ai_evidence_type", "logic_result",
    "validation_flags", "raw_response", "tokens_used", "latency_ms", "anomaly_types",
    "anomaly_severity", "created_at", "backend_used", "model_used", "from_cache",
    "processing_ms", "processed_at"}
AIValidationLog == {"val_id", "sent_id", "seg_id", "panel_id", "speaker_name", "country",
    "check_type", "formula_value", "ai_value", "result", "discrepancy_score", "explanation",
    "context_note", "processed_at"}
AISegmentInsight == {"insight_id", "seg_id", "prompt_version", "panel_id", "speaker_name",
    "country", "power_level", "segment_summary", "strategy_analysis", "hidden_message",
    "power_dynamics", "impact_assessment", "consistency_score", "rhetoric_profile",
    "diplomatic_value", "sbi_analysis", "dki_analysis", "formula_inconsistency_score",
    "overall_logic_check", "fail_count", "pass_count", "logic_health_pct", "backend_used",
    "model_used", "ai_insight", "ai_insight_version", "insight_generated_at",
    "processed_at"}
AICache == {"hash", "result_json", "model_used", "backend_used", "hit_count", "created_at"}
AIContextualFlag == {"flag_id", "sent_id", "seg_id", "panel_id", "speaker_name", "country",
    "power_level", "anomaly_type", "severity", "flag_category", "description", "ai_values",
    "formula_values", "detected_at"}
AIDemandAnalysis == {"ai_demand_id", "demand_id", "sent_id", "prompt_version", "seg_id",
    "panel_id", "speaker_name", "country", "power_level", "demand_verb", "demand_type",
    "demand_category", "future_risk", "risk_severity", "demand_subtext", "hidden_agenda",
    "potential_response", "escalation_path", "diplomatic_leverage", "future_demands",
    "strategic_value", "backend_used", "model_used", "processing_ms", "processed_at"}
AIPanelSynthesis == {"synthesis_id", "panel_id", "prompt_version", "panel_summary",
    "power_balance", "critical_moments", "outlook", "risk_map", "backend_used",
    "model_used", "processed_at"}
AIFailAnalysis == {"fail_id", "sent_id", "prompt_version", "seg_id", "panel_id",
    "speaker_name", "country", "power_level", "global_sent_order", "check_type",
    "formula_value", "ai_value", "discrepancy_score", "original_sentence", "triplet_text",
    "prev_sentence", "next_sentence", "prev_sent_id", "next_sent_id", "kgi_score",
    "risk_delta", "emotion_shift", "topic_shift", "formula_inconsistency_score",
    "ai_manipulation_score", "ai_hedging_score", "ai_risk_score", "ai_sentiment_score",
    "ai_tone", "ai_frame", "anomaly_types", "anomaly_count", "fail_reason", "negation_type",
    "negation_scope", "contextual_factor", "temporal_factor", "formula_gap",
    "ai_misperception", "correction_suggestion", "comparative_correction", "fail_category",
    "anomaly_link", "linguistic_marker", "confidence_score", "from_cache", "backend_used",
    "model_used", "processing_ms", "processed_at"}
AIFailPattern == {"pattern_id", "fail_category", "negation_type", "check_type",
    "speaker_name", "country", "power_level_avg", "avg_discrepancy", "avg_ai_confidence",
    "dominant_negation_type", "affected_panels", "example_sent_id", "example_sentence",
    "example_explanation", "recurrence_count", "first_seen_at", "last_seen_at"}
AIFailAnomalyCross == {"cross_id", "sent_id", "fail_id", "anomaly_type", "severity",
    "description", "detected_at"}
AIFailCache == {"hash", "result_json", "model_used", "backend_used", "hit_count",
    "created_at"}
DependencyTripleORM == {"triple_id", "sent_id", "seg_id", "panel_id", "speaker_name",
    "country", "subject_raw", "subject_resolved", "verb_lemma", "object_raw",
    "object_resolved", "is_passive", "is_negative", "sentiment_context", "risk_score",
    "human_verified", "verification_status", "extracted_at"}
ActorActionMatrixORM == {"matrix_id", "panel_id", "from_country", "to_country", "verb",
    "count", "avg_sentiment", "is_passive_pct", "is_negative_pct", "last_updated"}
AIExplanationsORM == {"explanation_id", "sent_id", "risk_explanation",
    "sentiment_explanation", "grammatical_explanation", "discrepancy_explanation",
    "executive_summary", "token_attributions_json", "generated_at"}
CountryReferenceTable == {"id", "panel_id", "speaker_country", "referenced_country",
    "sentence_index", "reference_context", "raw_sentiment_score", "speaker_power_level",
    "created_at"}
BilateralSentimentTable == {"id", "panel_id", "from_country", "to_country",
    "total_mentions", "avg_sentiment", "interaction_count", "relationship_type",
    "affinity_score", "power_weighted_score", "diplomatic_distance", "vote_affinity",
    "alliance_score", "structural_distance", "discourse_sentiment_delta",
    "maoz_diplomatic_distance", "maoz_affinity_score", "last_updated"}
DiscourseFlowTable == {"id", "panel_id", "from_country", "to_country", "edge_type",
    "weight", "sentiment_toward", "confrontational_count", "cooperative_count"}
TopicMatrixTable == {"id", "panel_id", "country", "topic_scores", "dominant_topic"}
TopicAssignmentORM == {"id", "segment_id", "analysis_id", "primary_topic", "topic_scores",
    "topic_label", "ctfidf_keywords", "model_metadata"}
ProcessedFile == {"file_hash", "file_name", "file_size_bytes", "idempotency_key",
    "parser_version", "speaker_map_version", "first_processed_at", "last_processed_at",
    "reprocess_count", "force_rebuild"}
HumanReviewQueue == {"review_id", "sent_id", "seg_id", "panel_id", "speaker_name",
    "country", "trigger_type", "ai_risk_score", "anomaly_types", "uncertainty_score",
    "status", "assigned_to", "reviewer_notes", "original_ai_json", "corrected_json",
    "flagged_at", "reviewed_at", "review_duration_sec"}
DriftEvent == {"id", "speaker_id", "panel_id", "drift_type", "start_position",
    "end_position", "severity", "before_state", "after_state", "confidence", "algorithm"}
DKIResultModel == {"id", "analysis_id", "speaker_id", "session_id", "dki_score", "velocity",
    "semantic_shift", "debate_loading", "anomaly_flag", "calculation_method", "created_at"}
SpeakerPositionTable == {"id", "speaker_id", "session_id", "analysis_id", "wordfish_theta",
    "wordscores_t", "stance_density", "engagement_score", "sbi", "session_deviation",
    "alpha", "beta", "gamma", "computed_at"}
TranscriptModel == {"id", "speaker_name", "country_code", "raw_text", "timestamp",
    "vader_compound", "power_level", "metadata_json"}
AnalyticModel == {"id", "transcript_id", "sbi_score", "dki_score", "hedging_markers",
    "framing_labels", "raw_ai_output", "topic_scores", "topic_node_mapping"}

-----------------------------------------------------------------------------
(* Table by table; discourse_network_edges is mapped by two classes.         *)

Mapped ==
    [panels |-> Panel,
     speakers |-> Speaker,
     speaker_profiles |-> SpeakerProfile,
     segments |-> Segment,
     sentences |-> Sentence,
     words |-> Word,
     legacy_country_references |-> CountryReference,
     country_stats |-> CountryStat,
     topic_matrix |-> TopicMatrix,
     country_pair_sentiment |-> CountryPairSentiment,
     demand_records |-> DemandRecord,
     pattern_records |-> PatternRecord,
     panel_dynamics |-> PanelDynamics,
     discourse_network_edges |-> DiscourseNetworkEdge \cup DiscourseNetworkEdgeTable,
     ai_sentence_analysis |-> AISentenceAnalysis,
     ai_validation_log |-> AIValidationLog,
     ai_segment_insights |-> AISegmentInsight,
     ai_cache |-> AICache,
     ai_contextual_flags |-> AIContextualFlag,
     ai_demand_analysis |-> AIDemandAnalysis,
     ai_panel_synthesis |-> AIPanelSynthesis,
     ai_fail_analysis |-> AIFailAnalysis,
     ai_fail_patterns |-> AIFailPattern,
     ai_fail_anomaly_cross |-> AIFailAnomalyCross,
     ai_fail_cache |-> AIFailCache,
     dependency_triples |-> DependencyTripleORM,
     actor_action_matrix |-> ActorActionMatrixORM,
     ai_explanations |-> AIExplanationsORM,
     country_references |-> CountryReferenceTable,
     bilateral_sentiments |-> BilateralSentimentTable,
     discourse_flows |-> DiscourseFlowTable,
     topic_matrices |-> TopicMatrixTable,
     topic_assignments |-> TopicAssignmentORM,
     processed_files |-> ProcessedFile,
     ai_human_review_queue |-> HumanReviewQueue,
     drift_events |-> DriftEvent,
     dki_results |-> DKIResultModel,
     speaker_positions |-> SpeakerPositionTable,
     transcripts |-> TranscriptModel,
     analytics |-> AnalyticModel]

(* Tables a class maps and no revision creates.                              *)
Unmigrated == {"dependency_triples", "actor_action_matrix", "ai_explanations",
    "dki_results", "speaker_positions"}
=============================================================================
