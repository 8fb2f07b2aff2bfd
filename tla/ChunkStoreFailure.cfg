CONSTANTS
  Documents <- MCDocuments
  Claims <- MCClaims
  MAX_CANDIDATES = 3
  MAX_CANDIDATE_CHARS = 4
  CANDIDATE_OVERLAP = 1
  MAX_SEMANTIC_CONTEXT_CHARS = 16
  BlockFrame = 2
  MAX_QUOTE_CHARS = 3
  PAGE_BOUNDARY_CHARS = 2
  STRICT_MAX_CHARS = 12
  STRICT_MAX_BATCHES = 2
  TARGET_CHARS = 5
  OVERLAP_CHARS = 1
  HEADING_MAX_CHARS = 2
  K = 2
  CANDIDATE_MULTIPLIER = 2
  RRF_CONSTANT = 1
  DENSE_WEIGHT = 1
  LEXICAL_WEIGHT = 1
  MAX_CONTEXT_CHARS = 18
  DOC_HEAD_CHARS = 6
  ExcerptFrame = 1
  Setups <- MCSetups
  DenseScores <- MCDenseScores
  LexicalScores <- MCLexicalScores
  Prompted <- MCPrompted
  Answers <- MCAnswers
  Parts = {"store"}
  Downloads <- MCDownloads
  LAST = 2
  Extensions <- MCExtensions
  ARTICLE_COUNT = 3
  Pages <- MCPages
  NoticePages <- MCNoticePages
  CfTexts <- MCCfTexts
  CHUNK_CHARS = 10
  ContextFrame = 3
  MIN_PIECE_CHARS = 3
  Space = " "
  Cases <- MCCases
  LawScores <- MCLawScores
  EvidenceScores <- MCEvidenceScores
  MAX_REFERENCES = 2
  MAX_GROUNDS = 2
  CITATION_CHARS = 4
  EVIDENCE_STRENGTH = 65
  Runs = {1, 2, 3, 4}
  Separated = {2}
  LIMIT = 2
  MaxTears = 2
  Writers = {1, 2, 3}
  ChunkCount <- MCChunkCount
  MaxCrashes = 1
  None = None
SPECIFICATION ServiceSpec
INVARIANTS
  FailedReplacementKeepsOld
CHECK_DEADLOCK FALSE
