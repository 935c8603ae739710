SPECIFICATION SuiteSpec
CONSTANT
    Cases = {"my-act", "my-paragraphs", "my-policy", "my-letter", "sg-act", "sg-contents",
             "sg-inner", "sg-notice", "sg-items", "th-act", "th-structure", "th-notification",
             "id-articles", "id-notes", "id-inner", "vn-amending", "vn-tree", "vn-lost",
             "vn-outline", "html-structure", "html-inner", "html-gaps", "docx-words", "docx-packages",
             "budget", "altered", "chunks"}
INVARIANTS TreesFaithful DerivationsAgree ChunksFaithful
CHECK_DEADLOCK FALSE
