\* Every length of the first three blocks, each text carried in every way.
CONSTANTS
  Word = 65536
  AES_encrypt <- MCEncrypt
  AES_decrypt <- MCDecrypt
  StandardCipher <- FipsEncrypt
  Plains <- MCPlains
  Losses = {1, 2, 3, 10, 19, 20}
  NoAnswer = NoAnswer
SPECIFICATION Spec
INVARIANTS
  RoundTrip
  DamageIsNoticed
  StandardText
