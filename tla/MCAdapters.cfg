CONSTANTS
  PublicKeyBytes <- MCPublicKeyBytes
  SecretKeyBytes <- MCSecretKeyBytes
  SignatureBytes <- MCSignatureBytes
  Messages = {m1, m2}
  MaxKeys = 2
  NULL = NULL
SPECIFICATION Spec
INVARIANTS TypeOK WritesFit SignedVerifies OnlySigned
